---- MODULE Spec2Model ----
(***************************************************************************)
(* Model of the surf:// resource protocol handlers of the Electron main    *)
(* process (app/src/main/surfProtocolHandlers.ts): the on-demand image     *)
(* transcoding path, its in-flight table, the single image-processing      *)
(* worker and the idle teardown of that worker.                            *)
(*                                                                         *)
(* The main process is a single-threaded event loop: every action below is *)
(* one run-to-completion step of it (the code between two awaits, a timer  *)
(* callback, a 'message' / 'error' event callback, a promise reaction), or *)
(* one step of the worker thread.                                          *)
(***************************************************************************)
EXTENDS Integers, Sequences, FiniteSets, TLC

(***************************************************************************)
(* Bounds of the model.                                                    *)
(***************************************************************************)
\* number of image requests that reach surfProtocolHandleImages
MaxRequests == 2
\* the idle window of 10000 ms, counted in clock ticks
DelayTicks == 1

\* `imageProcessor = null`, `imageProcessorDeinitTimeout = null`
NoWorker == 0
NoTimer == 0

Req == 1..MaxRequests
\* every worker is spawned by a distinct request, so MaxRequests names suffice
WorkerIds == 1..MaxRequests

(***************************************************************************)
(* JavaScript values.                                                      *)
(***************************************************************************)
\* `number | null`
Null == [t |-> "null"]
NaN == [t |-> "NaN"]
Num(n) == [t |-> "num", v |-> n]

\* URLSearchParams: a parameter is absent or holds a string (a sequence of characters)
Absent == [t |-> "absent"]
Str(chars) == [t |-> "str", s |-> chars]

Range(s) == {s[i] : i \in 1..Len(s)}

DigitChars == {"0", "1", "2", "3", "4", "5", "6", "7", "8", "9"}
DigitVal(c) ==
  CASE c = "0" -> 0 [] c = "1" -> 1 [] c = "2" -> 2 [] c = "3" -> 3 [] c = "4" -> 4
    [] c = "5" -> 5 [] c = "6" -> 6 [] c = "7" -> 7 [] c = "8" -> 8 [] c = "9" -> 9

RECURSIVE SkipSpace(_)
SkipSpace(s) == IF s # <<>> /\ Head(s) = " " THEN SkipSpace(Tail(s)) ELSE s

RECURSIVE DigitsValue(_, _, _)
\* the longest prefix of decimal digits of s: [n |-> its value, any |-> one digit seen]
DigitsValue(s, acc, seen) ==
  IF s # <<>> /\ Head(s) \in DigitChars
  THEN DigitsValue(Tail(s), acc * 10 + DigitVal(Head(s)), TRUE)
  ELSE [n |-> acc, any |-> seen]

\* Number.parseInt(string) with no radix, on strings without a 0x prefix:
\* leading white space, an optional sign, then the longest run of digits; NaN if none
ParseInt(s) ==
  LET t == SkipSpace(s)
      neg == t # <<>> /\ Head(t) = "-"
      u == IF t # <<>> /\ Head(t) \in {"-", "+"} THEN Tail(t) ELSE t
      d == DigitsValue(u, 0, FALSE)
  IN  IF ~d.any THEN NaN ELSE Num(IF neg THEN 0 - d.n ELSE d.n)

\* `${value}` of a number
NumberToString(x) == IF x = NaN THEN "NaN" ELSE ToString(x.v)

(***************************************************************************)
(* Paths: a path is a sequence of segments, a segment a sequence of text   *)
(* pieces (so that `a` + `_quality-` + `70` is the segment <<a,_quality-,70>>).*)
(***************************************************************************)
RECURSIVE Normalize(_, _)
\* path.normalize of an absolute path: "." and empty segments dropped, ".." pops
Normalize(segs, acc) ==
  IF segs = <<>> THEN acc
  ELSE LET s == Head(segs) IN
       IF s = <<>> \/ s = <<".">> THEN Normalize(Tail(segs), acc)
       ELSE IF s = <<"..">>
            THEN Normalize(Tail(segs), IF acc = <<>> THEN acc ELSE SubSeq(acc, 1, Len(acc) - 1))
            ELSE Normalize(Tail(segs), Append(acc, s))

\* path.join(a, b) of absolute path a and the segments b
Join(a, b) == Normalize(a \o b, <<>>)

\* join(app.getPath('userData'), 'sffs_backend', 'resources')
ResourceBase == << <<"userData">>, <<"sffs_backend">>, <<"resources">> >>

\* join(base, 'cache')
CacheDir(base) == Join(base, << <<"cache">> >>)

(***************************************************************************)
(* The requests drawn by the model.                                        *)
(***************************************************************************)
ResourceIds == { <<"123">>, <<"456">> }
\* the query strings: none, ?quality=70, ?quality=70&maxDimension=512
Queries ==
  { [quality |-> Absent, maxDimension |-> Absent],
    [quality |-> Str(<<"7", "0">>), maxDimension |-> Absent],
    [quality |-> Str(<<"7", "0">>), maxDimension |-> Str(<<"5", "1", "2">>)] }

\* the file fetchResourceFile located for the resource: join(base, resourceId)
ImgPathOf(id) == Join(ResourceBase, <<id>>)

extractImageOptions(query) ==
  [ quality |-> IF query.quality # Absent THEN ParseInt(query.quality.s) ELSE Null,
    maxDimension |-> IF query.maxDimension # Absent
                     THEN ParseInt(query.maxDimension.s) ELSE Null ]

\* generateCachedPath with a slip: the maximum dimension is written before the quality
generateCachedPath_DimensionFirst(resourceId, baseCacheDir, options) ==
  LET name0 == resourceId
      name1 == IF options.maxDimension # Null
               THEN name0 \o <<"_maxDimension-", NumberToString(options.maxDimension)>>
               ELSE name0
      name2 == IF options.quality # Null
               THEN name1 \o <<"_quality-", NumberToString(options.quality)>> ELSE name1
  IN  Join(baseCacheDir, <<name2>>)

generateCachedPath(resourceId, baseCacheDir, options) ==
  LET name0 == resourceId
      name1 == IF options.quality # Null
               THEN name0 \o <<"_quality-", NumberToString(options.quality)>> ELSE name0
      name2 == IF options.maxDimension # Null
               THEN name1 \o <<"_maxDimension-", NumberToString(options.maxDimension)>>
               ELSE name1
  IN  Join(baseCacheDir, <<name2>>)

\* cacheHeaders of surfProtocolHandleImages
CacheHeaders(resourceId) ==
  [ CacheControl |-> "max-age=172800",
    ETag |-> <<"\"">> \o resourceId \o <<"\"">>,
    LastModified |-> "now" ]

(***************************************************************************)
(* A Map, kept as its entry list in insertion order.                       *)
(***************************************************************************)
MapHas(m, k) == \E i \in 1..Len(m) : m[i].key = k
MapIndex(m, k) == CHOOSE i \in 1..Len(m) : m[i].key = k
MapGet(m, k) == m[MapIndex(m, k)].value
MapSet(m, k, v) ==
  IF MapHas(m, k) THEN [m EXCEPT ![MapIndex(m, k)].value = v]
  ELSE Append(m, [key |-> k, value |-> v])
MapDelete(m, k) == SelectSeq(m, LAMBDA e : e.key # k)

(***************************************************************************)
(* State.                                                                  *)
(***************************************************************************)
VARIABLES
  pc,                          \* position of each surfProtocolHandleImages call
  req,                         \* the parameters and locals of each call
  settled,                     \* what each call's promise was resolved with
  response,                    \* the Response each call returned
  imageProcessorHandles,       \* Map messageID -> list of waiting handles
  imageProcessor,              \* the worker handle, or NoWorker
  imageProcessorDeinitTimeout, \* the teardown timer handle, or NoTimer
  timers,                      \* event loop: pending timers, id -> ticks left
  spawned,                     \* number of workers created so far
  workerState,                 \* per worker: unborn, live, dead, terminating, exited
  listeners,                   \* per worker: the events that have a listener attached
  inbox,                       \* per worker: jobs posted and not yet taken
  outbox,                      \* per worker: result messages not yet delivered
  errorEvent,                  \* per worker: an 'error' event not yet delivered
  terminatePending,            \* per worker: terminate() promises not yet settled
  cacheFiles,                  \* the files that exist in the cache directory
  postLog,                     \* history: every postMessage call, by request and worker
  lastDeinit,                  \* history: what the last teardown callback did
  sinceSubmit,                 \* history: ticks since the last processImageWithWorker call
  rewritten,                   \* history: the cache files that were written a second time
  catalog,                     \* the resource catalog (SFFS): the record of each resource id
  disk,                        \* the files that exist outside the cache directory
  call,                        \* position, locals and result of each fetchResourceFile call
  oplog,                       \* history: the file and catalog operations of each call
  served,                      \* what serveFile answered for each target path
  route,                       \* the request handed to a protocol handler, and its outcome
  derive                       \* a query handed to the option and cache-path functions

\* the state of the resource locator and of static file serving
locVars == << catalog, disk, call, oplog, served >>
\* the applications of the routing functions and of the option functions
fnVars == << route, derive >>

vars == << pc, req, settled, response, imageProcessorHandles, imageProcessor,
           imageProcessorDeinitTimeout, timers, spawned, workerState, listeners,
           inbox, outbox, errorEvent, terminatePending, cacheFiles, postLog,
           lastDeinit, sinceSubmit, rewritten, locVars, fnVars >>

workerVars == << spawned, workerState, listeners, inbox, outbox, errorEvent,
                 terminatePending >>

NoRequest == [t |-> "none"]
NoResponse == [t |-> "none"]

\* no image request has arrived yet
ImageIdle ==
  /\ pc = [r \in Req |-> "idle"]
  /\ req = [r \in Req |-> NoRequest]
  /\ settled = [r \in Req |-> NoResponse]
  /\ response = [r \in Req |-> NoResponse]
  /\ imageProcessorHandles = <<>>
  /\ imageProcessor = NoWorker
  /\ imageProcessorDeinitTimeout = NoTimer
  /\ timers = [i \in {} |-> DelayTicks]
  /\ spawned = 0
  /\ workerState = [w \in WorkerIds |-> "unborn"]
  /\ listeners = [w \in WorkerIds |-> {}]
  /\ inbox = [w \in WorkerIds |-> <<>>]
  /\ outbox = [w \in WorkerIds |-> <<>>]
  /\ errorEvent = [w \in WorkerIds |-> FALSE]
  /\ terminatePending = [w \in WorkerIds |-> 0]
  /\ cacheFiles = {}
  /\ postLog = {}
  /\ lastDeinit = "none"
  /\ sinceSubmit = DelayTicks
  /\ rewritten = {}

(***************************************************************************)
(* The resource locator (fetchResourceFile) and static file serving        *)
(* (serveFile): their calls, the catalog and the disk.                     *)
(***************************************************************************)
\* number of fetchResourceFile calls
MaxCalls == 2
Calls == 1..MaxCalls

\* readResource found no record: `resource` is undefined
NoRecord == [t |-> "none"]
\* a fetchResourceFile call that has not been made
NoCall == [pc |-> "idle"]

\* the target paths handed to serveFile: an entry document, a file that does not
\* exist, and a traversal out of the renderer directory
TargetPaths ==
  { << <<"Core">>, <<"core", ".", "html">> >>,
    << <<"missing", ".", "js">> >>,
    << <<"..">>, <<"..">>, <<"..">>, <<"etc">>, <<"passwd">> >> }

\* no fetchResourceFile and no serveFile call has been made
LocIdle ==
  /\ catalog = [id \in ResourceIds |-> NoRecord]
  /\ disk = {}
  /\ call = [c \in Calls |-> NoCall]
  /\ oplog = [c \in Calls |-> <<>>]
  /\ served = [t \in TargetPaths |-> NoResponse]

\* no request was routed and no query was handed to the option functions
NoRoute == [t |-> "none"]
NoDerive == [t |-> "none"]
FnIdle == route = NoRoute /\ derive = NoDerive

Init == ImageIdle /\ LocIdle /\ FnIdle

(***************************************************************************)
(* Responses. `obj` names the Response object: two handles that hold the   *)
(* same obj share one body stream.                                         *)
(***************************************************************************)
NewResponse(status, body, obj) == [status |-> status, body |-> body, obj |-> obj]

\* bodies: a text, the bytes of a Buffer, the content of a file
Text(pieces) == [kind |-> "text", text |-> pieces]
Bytes(buffer) == [kind |-> "bytes", buffer |-> buffer]
File(path) == [kind |-> "file", path |-> path]

\* response.clone(): a new object with its own body stream, here named after
\* the handle it is made for
Clone(resp, h) == [resp EXCEPT !.obj = <<"clone", h>>]

\* handle.resolve(value): a promise keeps the first value it is resolved with
Resolve(st, h, value) == IF st[h] = NoResponse THEN [st EXCEPT ![h] = value] ELSE st

RECURSIVE ResolveEach(_, _, _)
\* handles.forEach((handle) => handle.resolve(value[handle]))
ResolveEach(st, handles, value) ==
  IF handles = <<>> THEN st
  ELSE ResolveEach(Resolve(st, Head(handles), value[Head(handles)]), Tail(handles), value)

\* new Response(response.body, {status, headers: {...response.headers, ...cacheHeaders}})
WithCacheHeaders(resp, resourceId) ==
  [status |-> resp.status, body |-> resp.body, headers |-> CacheHeaders(resourceId)]

(***************************************************************************)
(* Timers of the event loop.                                               *)
(***************************************************************************)
FreshTimer(ts) == CHOOSE i \in 1..(Cardinality(DOMAIN ts) + 1) : i \notin DOMAIN ts
\* setTimeout(deinitializeImageProcessor, 10000)
SetTimeout(ts, id) == [i \in DOMAIN ts \cup {id} |-> IF i = id THEN DelayTicks ELSE ts[i]]
\* clearTimeout(id)
ClearTimeout(ts, id) == [i \in DOMAIN ts \ {id} |-> ts[i]]

(***************************************************************************)
(* The worker thread (workers/imageProcessor.ts) and the worker_threads    *)
(* channel to it.                                                          *)
(***************************************************************************)
\* worker.postMessage(job): queued for a worker that runs (or is being started),
\* dropped without error for one whose thread has ended or is being stopped
PostMessage(boxes, states, w, job) ==
  IF states[w] \in {"dead", "terminating", "exited"}
  THEN boxes ELSE [boxes EXCEPT ![w] = Append(@, job)]

NoBuffer == [t |-> "none"]
\* the bytes a job produces: the source image under the job's transform parameters
Transcoded(job) ==
  [imgPath |-> job.imgPath, quality |-> job.quality, maxDimension |-> job.maxDimension]

\* the worker takes its next job and answers it: on success the result is saved at
\* job.savePath and the bytes are sent back, on failure the reason is sent back
WorkerProcess(w, ok) ==
  /\ workerState[w] = "live"
  /\ inbox[w] # <<>>
  /\ LET job == Head(inbox[w])
         result == IF ok
                   THEN [messageID |-> job.messageID, success |-> TRUE,
                         buffer |-> Transcoded(job), error |-> ""]
                   ELSE [messageID |-> job.messageID, success |-> FALSE,
                         buffer |-> NoBuffer, error |-> "failed"]
     IN  /\ inbox' = [inbox EXCEPT ![w] = Tail(@)]
         /\ outbox' = [outbox EXCEPT ![w] = Append(@, result)]
         /\ cacheFiles' = IF ok THEN cacheFiles \cup {job.savePath} ELSE cacheFiles
         /\ rewritten' = IF ok /\ job.savePath \in cacheFiles
                         THEN rewritten \cup {job.savePath} ELSE rewritten
  /\ UNCHANGED << pc, req, settled, response, imageProcessorHandles, imageProcessor,
                  imageProcessorDeinitTimeout, timers, spawned, workerState, listeners,
                  errorEvent, terminatePending, postLog, lastDeinit, sinceSubmit,
                  locVars, fnVars >>

\* an uncaught exception in the worker thread while it works on a job: the thread
\* ends, the jobs it held are lost, and an 'error' event is on its way to the main
\* thread
WorkerFatal(w) ==
  /\ workerState[w] = "live"
  /\ inbox[w] # <<>>
  /\ workerState' = [workerState EXCEPT ![w] = "dead"]
  /\ inbox' = [inbox EXCEPT ![w] = <<>>]
  /\ errorEvent' = [errorEvent EXCEPT ![w] = TRUE]
  /\ UNCHANGED << pc, req, settled, response, imageProcessorHandles, imageProcessor,
                  imageProcessorDeinitTimeout, timers, spawned, listeners, outbox,
                  terminatePending, cacheFiles, postLog, lastDeinit, sinceSubmit,
                  rewritten, locVars, fnVars >>

(***************************************************************************)
(* The handlers of the main process.                                       *)
(***************************************************************************)
\* imageProcessorOnMessage with a slip: the table is cleared instead of the one
\* entry being deleted
imageProcessorOnMessage_ClearsTable(result) ==
  IF ~MapHas(imageProcessorHandles, result.messageID)
  THEN UNCHANGED << imageProcessorHandles, settled >>
  ELSE LET handles == MapGet(imageProcessorHandles, result.messageID)
           resp == IF ~result.success
                   THEN NewResponse(500, Text(<<"Image Processing Error: ", result.error>>), <<"new">>)
                   ELSE NewResponse(200, Bytes(result.buffer), <<"new">>)
       IN  /\ settled' = ResolveEach(settled, handles,
                                     [h \in Range(handles) |-> Clone(resp, h)])
           /\ imageProcessorHandles' = <<>>

\* imageProcessorOnMessage with a slip: a result without an entry leaves an empty
\* entry behind
imageProcessorOnMessage_MissAddsEntry(result) ==
  IF ~MapHas(imageProcessorHandles, result.messageID)
  THEN /\ imageProcessorHandles' = MapSet(imageProcessorHandles, result.messageID, <<>>)
       /\ UNCHANGED settled
  ELSE LET handles == MapGet(imageProcessorHandles, result.messageID)
           resp == IF ~result.success
                   THEN NewResponse(500, Text(<<"Image Processing Error: ", result.error>>), <<"new">>)
                   ELSE NewResponse(200, Bytes(result.buffer), <<"new">>)
       IN  /\ settled' = ResolveEach(settled, handles,
                                     [h \in Range(handles) |-> Clone(resp, h)])
           /\ imageProcessorHandles' = MapDelete(imageProcessorHandles, result.messageID)

\* the 'message' listener: the result is fanned out to the handles waiting for
\* result.messageID and the entry is deleted
imageProcessorOnMessage(result) ==
  IF ~MapHas(imageProcessorHandles, result.messageID)
  THEN UNCHANGED << imageProcessorHandles, settled >>
  ELSE LET handles == MapGet(imageProcessorHandles, result.messageID)
           resp == IF ~result.success
                   THEN NewResponse(500, Text(<<"Image Processing Error: ", result.error>>), <<"new">>)
                   ELSE NewResponse(200, Bytes(result.buffer), <<"new">>)
       IN  /\ settled' = ResolveEach(settled, handles,
                                     [h \in Range(handles) |-> Clone(resp, h)])
           /\ imageProcessorHandles' = MapDelete(imageProcessorHandles, result.messageID)

Hole == [t |-> "deleted"]

RECURSIVE OnErrorFrom(_, _, _)
\* imageProcessorHandles.entries().forEach(...) from position i on. A Map iterator
\* walks the entry list by position; an entry deleted during the walk leaves a hole
\* behind and the positions of the other entries stay as they are.
OnErrorFrom(entries, i, st) ==
  IF i > Len(entries)
  THEN [handles |-> SelectSeq(entries, LAMBDA e : e # Hole), settled |-> st]
  ELSE IF entries[i] = Hole THEN OnErrorFrom(entries, i + 1, st)
  ELSE LET handles == entries[i].value
           fatal == [h \in Range(handles) |->
                       NewResponse(500, Text(<<"Image Processing Error: Fatal error!">>),
                                   <<"new", h>>)]
       IN  OnErrorFrom([entries EXCEPT ![i] = Hole], i + 1,
                       ResolveEach(st, handles, fatal))

RECURSIVE OnErrorShifting(_, _, _)
\* the walk of an array whose elements move up when one is deleted: the element
\* that follows a deleted one is skipped
OnErrorShifting(entries, i, st) ==
  IF i > Len(entries) THEN [handles |-> entries, settled |-> st]
  ELSE LET handles == entries[i].value
           fatal == [h \in Range(handles) |->
                       NewResponse(500, Text(<<"Image Processing Error: Fatal error!">>),
                                   <<"new", h>>)]
       IN  OnErrorShifting(SubSeq(entries, 1, i - 1) \o SubSeq(entries, i + 1, Len(entries)),
                           i + 1, ResolveEach(st, handles, fatal))

\* imageProcessorOnError with a slip: the table is walked like an array
imageProcessorOnError_Shifting ==
  LET out == OnErrorShifting(imageProcessorHandles, 1, settled)
  IN  /\ settled' = out.settled
      /\ imageProcessorHandles' = out.handles

\* the 'error' listener: every open handle of every entry is resolved with an error
imageProcessorOnError ==
  LET out == OnErrorFrom(imageProcessorHandles, 1, settled)
  IN  /\ settled' = out.settled
      /\ imageProcessorHandles' = out.handles

\* a new Worker with the 'message' and 'error' listeners attached
initializeImageProcessor ==
  LET w == spawned + 1
  IN  /\ spawned' = w
      /\ imageProcessor' = w
      /\ workerState' = [workerState EXCEPT ![w] = "live"]
      /\ listeners' = [listeners EXCEPT ![w] = {"message", "error"}]

\* deinitializeImageProcessor with a slip: the handle is dropped when terminate() is
\* called, not when it has settled
deinitializeImageProcessor_DropsHandle(ts) ==
  IF imageProcessor = NoWorker
  THEN /\ timers' = ts
       /\ lastDeinit' = "no worker"
       /\ UNCHANGED << imageProcessor, imageProcessorDeinitTimeout, workerState,
                       listeners, inbox, terminatePending >>
  ELSE IF Len(imageProcessorHandles) > 0
  THEN LET id == FreshTimer(ts)
       IN  /\ timers' = SetTimeout(ts, id)
           /\ imageProcessorDeinitTimeout' = id
           /\ lastDeinit' = "deferred"
           /\ UNCHANGED << imageProcessor, workerState, listeners, inbox,
                           terminatePending >>
  ELSE /\ listeners' = [listeners EXCEPT ![imageProcessor] = @ \ {"message", "error"}]
       /\ workerState' = [workerState EXCEPT ![imageProcessor] = "terminating"]
       /\ inbox' = [inbox EXCEPT ![imageProcessor] = <<>>]
       /\ terminatePending' = [terminatePending EXCEPT ![imageProcessor] = @ + 1]
       /\ imageProcessorDeinitTimeout' = NoTimer
       /\ timers' = ts
       /\ lastDeinit' = "terminated"
       /\ imageProcessor' = NoWorker

\* deinitializeImageProcessor with a slip: the check for outstanding jobs is missing
deinitializeImageProcessor_NoDeferral(ts) ==
  IF imageProcessor = NoWorker
  THEN /\ timers' = ts
       /\ lastDeinit' = "no worker"
       /\ UNCHANGED << imageProcessor, imageProcessorDeinitTimeout, workerState,
                       listeners, inbox, terminatePending >>
  ELSE /\ listeners' = [listeners EXCEPT ![imageProcessor] = @ \ {"message", "error"}]
       /\ workerState' = [workerState EXCEPT ![imageProcessor] = "terminating"]
       /\ inbox' = [inbox EXCEPT ![imageProcessor] = <<>>]
       /\ terminatePending' = [terminatePending EXCEPT ![imageProcessor] = @ + 1]
       /\ imageProcessorDeinitTimeout' = NoTimer
       /\ timers' = ts
       /\ lastDeinit' = "terminated"
       /\ UNCHANGED imageProcessor

\* the teardown timer's callback; ts are the timers still pending
deinitializeImageProcessor(ts) ==
  IF imageProcessor = NoWorker
  THEN /\ timers' = ts
       /\ lastDeinit' = "no worker"
       /\ UNCHANGED << imageProcessor, imageProcessorDeinitTimeout, workerState,
                       listeners, inbox, terminatePending >>
  ELSE IF Len(imageProcessorHandles) > 0
  THEN LET id == FreshTimer(ts)
       IN  /\ timers' = SetTimeout(ts, id)
           /\ imageProcessorDeinitTimeout' = id
           /\ lastDeinit' = "deferred"
           /\ UNCHANGED << imageProcessor, workerState, listeners, inbox,
                           terminatePending >>
  ELSE /\ listeners' = [listeners EXCEPT ![imageProcessor] = @ \ {"message", "error"}]
       \* terminate(): the thread is stopped, the promise settles later
       /\ workerState' = [workerState EXCEPT ![imageProcessor] = "terminating"]
       /\ inbox' = [inbox EXCEPT ![imageProcessor] = <<>>]
       /\ terminatePending' = [terminatePending EXCEPT ![imageProcessor] = @ + 1]
       /\ imageProcessorDeinitTimeout' = NoTimer
       /\ timers' = ts
       /\ lastDeinit' = "terminated"
       /\ UNCHANGED imageProcessor

\* processImageWithWorker with a slip: the pending teardown timer is not cancelled
processImageWithWorker_KeepsOldTimer(r, worker, params) ==
  LET messageID == params.imgPath
      job == [imgPath |-> params.imgPath, savePath |-> params.savePath,
              quality |-> params.quality, maxDimension |-> params.maxDimension,
              messageID |-> messageID]
      id == FreshTimer(timers)
  IN  /\ IF MapHas(imageProcessorHandles, messageID)
         THEN /\ imageProcessorHandles' =
                   MapSet(imageProcessorHandles, messageID,
                          Append(MapGet(imageProcessorHandles, messageID), r))
              /\ UNCHANGED << inbox, postLog >>
         ELSE /\ imageProcessorHandles' = MapSet(imageProcessorHandles, messageID, <<r>>)
              /\ inbox' = PostMessage(inbox, workerState, worker, job)
              /\ postLog' = postLog \cup {[req |-> r, worker |-> worker]}
      /\ timers' = SetTimeout(timers, id)
      /\ imageProcessorDeinitTimeout' = id

\* processImageWithWorker with a slip: the job is posted for every call, also when
\* the key has an entry already
processImageWithWorker_AlwaysPosts(r, worker, params) ==
  LET messageID == params.imgPath
      job == [imgPath |-> params.imgPath, savePath |-> params.savePath,
              quality |-> params.quality, maxDimension |-> params.maxDimension,
              messageID |-> messageID]
      cleared == IF imageProcessorDeinitTimeout # NoTimer
                 THEN ClearTimeout(timers, imageProcessorDeinitTimeout) ELSE timers
      id == FreshTimer(cleared)
  IN  /\ imageProcessorHandles' =
           IF MapHas(imageProcessorHandles, messageID)
           THEN MapSet(imageProcessorHandles, messageID,
                       Append(MapGet(imageProcessorHandles, messageID), r))
           ELSE MapSet(imageProcessorHandles, messageID, <<r>>)
      /\ inbox' = PostMessage(inbox, workerState, worker, job)
      /\ postLog' = postLog \cup {[req |-> r, worker |-> worker]}
      /\ timers' = SetTimeout(cleared, id)
      /\ imageProcessorDeinitTimeout' = id

\* processImageWithWorker(imageProcessor, params), called by request r: its handle
\* is registered under params.imgPath, the job is posted if that key had no entry,
\* and the teardown timer is re-armed
processImageWithWorker(r, worker, params) ==
  LET messageID == params.imgPath
      job == [imgPath |-> params.imgPath, savePath |-> params.savePath,
              quality |-> params.quality, maxDimension |-> params.maxDimension,
              messageID |-> messageID]
      cleared == IF imageProcessorDeinitTimeout # NoTimer
                 THEN ClearTimeout(timers, imageProcessorDeinitTimeout) ELSE timers
      id == FreshTimer(cleared)
  IN  /\ IF MapHas(imageProcessorHandles, messageID)
         THEN /\ imageProcessorHandles' =
                   MapSet(imageProcessorHandles, messageID,
                          Append(MapGet(imageProcessorHandles, messageID), r))
              /\ UNCHANGED << inbox, postLog >>
         ELSE /\ imageProcessorHandles' = MapSet(imageProcessorHandles, messageID, <<r>>)
              /\ inbox' = PostMessage(inbox, workerState, worker, job)
              /\ postLog' = postLog \cup {[req |-> r, worker |-> worker]}
      /\ timers' = SetTimeout(cleared, id)
      /\ imageProcessorDeinitTimeout' = id

(***************************************************************************)
(* surfProtocolHandleImages, by the stretches between its awaits.    *)
(***************************************************************************)
\* the locals `options` and `cachedPath` of call r
OptionsOf(r) == req[r].options
CachedPathOf(r) == req[r].cachedPath
FileResponse(path) == NewResponse(200, File(path), <<"fetch">>)

\* Request with a slip: the cache file is not looked up, every request with
\* transform parameters goes on to the worker
Request_NoCacheLookup(r, id, query) ==
  /\ pc[r] = "idle"
  /\ \A earlier \in 1..(r - 1) : pc[earlier] # "idle"
  /\ LET params == [query |-> query, resourceId |-> id, imgPath |-> ImgPathOf(id),
                    cacheDir |-> CacheDir(ResourceBase)]
         options == extractImageOptions(query)
         cachedPath == generateCachedPath(id, params.cacheDir, options)
     IN  /\ req' = [req EXCEPT ![r] = [query |-> query, resourceId |-> id,
                                      imgPath |-> params.imgPath,
                                      cacheDir |-> params.cacheDir,
                                      options |-> options, cachedPath |-> cachedPath]]
         /\ IF options.quality = Null /\ options.maxDimension = Null
            THEN /\ response' = [response EXCEPT
                                   ![r] = WithCacheHeaders(FileResponse(params.imgPath), id)]
                 /\ pc' = [pc EXCEPT ![r] = "done"]
            ELSE /\ pc' = [pc EXCEPT ![r] = "miss"]
                 /\ UNCHANGED response
  /\ UNCHANGED << settled, imageProcessorHandles, imageProcessor,
                  imageProcessorDeinitTimeout, timers, workerVars, cacheFiles, postLog,
                  lastDeinit, sinceSubmit, rewritten, locVars, fnVars >>

\* a request for the image of resource `id` arrives. Without transform parameters
\* the located file is returned as it is. Otherwise the cache file is looked up
\* (stat): one that exists is returned and no job is made, and a miss leaves the
\* call suspended until the stat's answer is handed to its continuation.
Request(r, id, query) ==
  /\ pc[r] = "idle"
  /\ \A earlier \in 1..(r - 1) : pc[earlier] # "idle"
  /\ LET params == [query |-> query, resourceId |-> id, imgPath |-> ImgPathOf(id),
                    cacheDir |-> CacheDir(ResourceBase)]
         options == extractImageOptions(query)
         cachedPath == generateCachedPath(id, params.cacheDir, options)
     IN  /\ req' = [req EXCEPT ![r] = [query |-> query, resourceId |-> id,
                                      imgPath |-> params.imgPath,
                                      cacheDir |-> params.cacheDir,
                                      options |-> options, cachedPath |-> cachedPath]]
         /\ IF options.quality = Null /\ options.maxDimension = Null
            THEN /\ response' = [response EXCEPT
                                   ![r] = WithCacheHeaders(FileResponse(params.imgPath), id)]
                 /\ pc' = [pc EXCEPT ![r] = "done"]
            ELSE IF cachedPath \in cacheFiles
            THEN /\ response' = [response EXCEPT
                                   ![r] = WithCacheHeaders(FileResponse(cachedPath), id)]
                 /\ pc' = [pc EXCEPT ![r] = "done"]
            ELSE /\ pc' = [pc EXCEPT ![r] = "miss"]
                 /\ UNCHANGED response
  /\ UNCHANGED << settled, imageProcessorHandles, imageProcessor,
                  imageProcessorDeinitTimeout, timers, workerVars, cacheFiles, postLog,
                  lastDeinit, sinceSubmit, rewritten, locVars, fnVars >>

\* after the stat missed: the worker is created if there is none, and the request
\* is handed to processImageWithWorker
Submit(r) ==
  /\ pc[r] = "miss"
  /\ IF imageProcessor = NoWorker
     THEN initializeImageProcessor
     ELSE UNCHANGED << spawned, imageProcessor, workerState, listeners >>
  /\ processImageWithWorker(r, IF imageProcessor = NoWorker THEN spawned + 1
                               ELSE imageProcessor,
                            [imgPath |-> req[r].imgPath, savePath |-> CachedPathOf(r),
                             quality |-> OptionsOf(r).quality,
                             maxDimension |-> OptionsOf(r).maxDimension])
  /\ pc' = [pc EXCEPT ![r] = "waiting"]
  /\ sinceSubmit' = 0
  /\ UNCHANGED << req, settled, response, outbox, errorEvent, terminatePending,
                  cacheFiles, lastDeinit, rewritten, locVars, fnVars >>

\* The calls whose awaited promise was resolved in this step resume and return the
\* response with the cache headers. Promise reactions are microtasks: they run when
\* the callback that resolved the promise returns, before any other event.
Respond ==
  LET resumed == {r \in Req : settled[r] = NoResponse /\ settled'[r] # NoResponse}
  IN  /\ response' = [r \in Req |->
                        IF r \in resumed
                        THEN WithCacheHeaders(settled'[r], req[r].resourceId)
                        ELSE response[r]]
      /\ pc' = [r \in Req |-> IF r \in resumed THEN "done" ELSE pc[r]]

(***************************************************************************)
(* Events of the event loop.                                               *)
(***************************************************************************)
\* a result message of worker w reaches the main thread
DeliverMessage(w) ==
  /\ outbox[w] # <<>>
  /\ outbox' = [outbox EXCEPT ![w] = Tail(@)]
  /\ IF "message" \in listeners[w]
     THEN imageProcessorOnMessage(Head(outbox[w]))
     ELSE UNCHANGED << imageProcessorHandles, settled >>
  /\ Respond
  /\ UNCHANGED << req, imageProcessor, imageProcessorDeinitTimeout, timers, spawned,
                  workerState, listeners, inbox, errorEvent, terminatePending,
                  cacheFiles, postLog, lastDeinit, sinceSubmit, rewritten, locVars, fnVars >>

\* the 'error' event of worker w reaches the main thread
DeliverError(w) ==
  /\ errorEvent[w]
  /\ errorEvent' = [errorEvent EXCEPT ![w] = FALSE]
  /\ IF "error" \in listeners[w]
     THEN imageProcessorOnError
     ELSE UNCHANGED << imageProcessorHandles, settled >>
  /\ Respond
  /\ UNCHANGED << req, imageProcessor, imageProcessorDeinitTimeout, timers, spawned,
                  workerState, listeners, inbox, outbox, terminatePending, cacheFiles,
                  postLog, lastDeinit, sinceSubmit, rewritten, locVars, fnVars >>

\* time passes
Tick ==
  /\ \E i \in DOMAIN timers : timers[i] > 0
  /\ timers' = [i \in DOMAIN timers |-> IF timers[i] > 0 THEN timers[i] - 1 ELSE 0]
  /\ sinceSubmit' = IF sinceSubmit < DelayTicks THEN sinceSubmit + 1 ELSE DelayTicks
  /\ UNCHANGED << pc, req, settled, response, imageProcessorHandles, imageProcessor,
                  imageProcessorDeinitTimeout, workerVars, cacheFiles, postLog, lastDeinit,
                  rewritten, locVars, fnVars >>

\* TimerFire with a slip: the timer is an interval, it stays pending after its
\* callback has run
TimerFire_Interval(id) ==
  /\ id \in DOMAIN timers
  /\ timers[id] = 0
  /\ deinitializeImageProcessor(timers)
  /\ UNCHANGED << pc, req, settled, response, imageProcessorHandles, spawned, outbox,
                  errorEvent, cacheFiles, postLog, sinceSubmit, rewritten, locVars, fnVars >>

\* a timer has run out: its callback, deinitializeImageProcessor, is called
TimerFire(id) ==
  /\ id \in DOMAIN timers
  /\ timers[id] = 0
  /\ deinitializeImageProcessor(ClearTimeout(timers, id))
  /\ UNCHANGED << pc, req, settled, response, imageProcessorHandles, spawned, outbox,
                  errorEvent, cacheFiles, postLog, sinceSubmit, rewritten, locVars, fnVars >>

\* terminate() of worker w has settled: .then / .catch set imageProcessor to null
TerminateDone(w) ==
  /\ terminatePending[w] > 0
  /\ terminatePending' = [terminatePending EXCEPT ![w] = @ - 1]
  /\ workerState' = [workerState EXCEPT ![w] = "exited"]
  /\ imageProcessor' = NoWorker
  /\ UNCHANGED << pc, req, settled, response, imageProcessorHandles,
                  imageProcessorDeinitTimeout, timers, spawned, listeners, inbox, outbox,
                  errorEvent, cacheFiles, postLog, lastDeinit, sinceSubmit, rewritten,
                  locVars, fnVars >>

Next ==
  \/ \E r \in Req, id \in ResourceIds, query \in Queries : Request(r, id, query)
  \/ \E r \in Req : Submit(r)
  \/ \E w \in WorkerIds, ok \in BOOLEAN : WorkerProcess(w, ok)
  \/ \E w \in WorkerIds : WorkerFatal(w)
  \/ \E w \in WorkerIds : DeliverMessage(w)
  \/ \E w \in WorkerIds : DeliverError(w)
  \/ Tick
  \/ \E id \in DOMAIN timers : TimerFire(id)
  \/ \E w \in WorkerIds : TerminateDone(w)

Spec == Init /\ [][Next]_vars

\* The event loop runs every callback that is ready, time passes, and a live worker
\* answers the jobs it holds. Requests and worker crashes are under no obligation.
Fairness ==
  /\ \A r \in Req : WF_vars(Submit(r))
  /\ \A w \in WorkerIds :
       /\ WF_vars(\E ok \in BOOLEAN : WorkerProcess(w, ok))
       /\ WF_vars(DeliverMessage(w))
       /\ WF_vars(DeliverError(w))
       /\ WF_vars(TerminateDone(w))
  /\ WF_vars(Tick)
  /\ WF_vars(\E id \in DOMAIN timers : TimerFire(id))

FairSpec == Spec /\ Fairness

(***************************************************************************)
(* The resource locator: fetchFilePath, migrateResourceFile and            *)
(* fetchResourceFile. A call is suspended at every await: the read of the  *)
(* catalog, each net.fetch, the rename and the catalog update are steps of *)
(* their own, and the steps of two calls interleave.                       *)
(***************************************************************************)
\* path.join(app.getAppPath(), 'out', 'renderer')
AppBase == << <<"app">>, <<"out">>, <<"renderer">> >>

IsPrefix(a, b) == Len(a) <= Len(b) /\ SubSeq(b, 1, Len(a)) = a

\* isPathSafe(base, filePath) of ./utils: the canonical form of filePath is base or
\* lies under base
isPathSafe(base, filePath) == IsPrefix(Normalize(base, <<>>), Normalize(filePath, <<>>))

\* path.endsWith(suffix), on the pieces of the last segment
EndsWith(path, suffix) ==
  /\ path # <<>>
  /\ LET seg == path[Len(path)]
     IN  /\ Len(seg) >= Len(suffix)
         /\ SubSeq(seg, Len(seg) - Len(suffix) + 1, Len(seg)) = suffix

\* getResourceFileExtension(resource.type) of @deta/utils: the extension of the kind
getResourceFileExtension(type) == IF type = "image/png" THEN "png" ELSE "json"

\* getResourceFileName(...) of @deta/utils: the normalized file name of the record,
\* one path segment made from its kind and id
getResourceFileName(resource) == <<"img-">> \o resource.id

\* `extension` of fetchResourceFile: '' when there is no record
ExtensionOf(resource) ==
  IF resource = NoRecord THEN "" ELSE getResourceFileExtension(resource.type)

\* NewFilePathOf with a slip: the file name is joined to the parent of base
NewFilePathOf_InParent(resourceId, resource) ==
  Join(ResourceBase,
       << <<"..">>,
          IF ExtensionOf(resource) # ""
          THEN getResourceFileName(resource) \o <<".", ExtensionOf(resource)>>
          ELSE resourceId >>)

\* newFilePath = join(base, extension ? `${newFileName}.${extension}` : resourceId)
NewFilePathOf(resourceId, resource) ==
  Join(ResourceBase,
       << IF ExtensionOf(resource) # ""
          THEN getResourceFileName(resource) \o <<".", ExtensionOf(resource)>>
          ELSE resourceId >>)

\* legacyFilePath = join(base, resourceId)
LegacyFilePathOf(resourceId) == Join(ResourceBase, <<resourceId>>)

\* StoredPathEligible with a slip: the ending of the stored path is not looked at
StoredPathEligible_IgnoresEnding(resource) ==
  /\ resource # NoRecord
  /\ resource.path # <<>>

\* the condition under which the stored path is tried first
StoredPathEligible(resource) ==
  /\ resource # NoRecord
  /\ resource.path # <<>>
  /\ \E suffix \in { <<".", ExtensionOf(resource)>>, <<".", "json">> } :
       EndsWith(resource.path, suffix)

\* NeedsMigration with a slip: the record is never brought up to date
NeedsMigration_Never(resource, newFilePath) == FALSE

\* `resource?.path !== newFilePath`
NeedsMigration(resource, newFilePath) ==
  IF resource = NoRecord THEN TRUE ELSE resource.path # newFilePath

\* net.fetch(`file://${filePath}`) answers when the file exists and throws otherwise
FileExists(filePath) == Normalize(filePath, <<>>) \in disk

Forbidden == NewResponse(403, Text(<<"Forbidden">>), <<"new">>)
NotFound == NewResponse(404, Text(<<"Not Found">>), <<"new">>)

\* fetchFilePath with a slip: a path outside base is answered like a missing file
fetchFilePath_NullOnReject(base, filePath) ==
  IF ~isPathSafe(base, filePath)
  THEN Null
  ELSE IF FileExists(filePath)
  THEN [response |-> FileResponse(filePath), filePath |-> filePath, base |-> base]
  ELSE Null

\* fetchFilePath(base, filePath): the 403 result for a path outside base, the
\* file's response, or null when the fetch throws
fetchFilePath(base, filePath) ==
  IF ~isPathSafe(base, filePath)
  THEN [response |-> Forbidden, filePath |-> filePath, base |-> base]
  ELSE IF FileExists(filePath)
  THEN [response |-> FileResponse(filePath), filePath |-> filePath, base |-> base]
  ELSE Null

\* one entry of the history: the safety check that rejected `path`, the net.fetch of
\* `path`, the rename of `path` to `to`, or the updateResource that stores `path`
Log(c, op, path, to, ok) == [call |-> c, op |-> op, path |-> path, to |-> to, ok |-> ok]

\* what a fetchFilePath call adds to the history
FetchLog(c, base, filePath) ==
  IF ~isPathSafe(base, filePath)
  THEN Log(c, "reject", filePath, filePath, FALSE)
  ELSE Log(c, "fetch", filePath, filePath, FileExists(filePath))

\* the `Not Found` result of fetchResourceFile
NotFoundResult(resourceId) ==
  [response |-> NotFound, filePath |-> Join(ResourceBase, <<resourceId>>),
   base |-> ResourceBase]

\* fetchResourceFile returns `result`
Return(c, result) == call' = [call EXCEPT ![c].pc = "done", ![c].result = result]

imageVars == << pc, req, settled, response, imageProcessorHandles, imageProcessor,
                imageProcessorDeinitTimeout, timers, spawned, workerState, listeners,
                inbox, outbox, errorEvent, terminatePending, cacheFiles, postLog,
                lastDeinit, sinceSubmit, rewritten >>

\* a resource request: readResource(resourceId) has answered and fetchResourceFile
\* is called with the record it gave
LocStart(c, resourceId) ==
  /\ call[c].pc = "idle"
  /\ \A earlier \in 1..(c - 1) : call[earlier].pc # "idle"
  /\ call' = [call EXCEPT ![c] =
                [pc |-> "stored", id |-> resourceId, resource |-> catalog[resourceId],
                 found |-> Null, src |-> <<>>, result |-> Null,
                 after |-> {d \in Calls : call[d].pc = "done"}, disk0 |-> disk]]
  /\ UNCHANGED << catalog, disk, oplog, served, imageVars, fnVars >>

\* step 1: the stored path, when it ends in the kind's extension or in .json
TryStored(c) ==
  /\ call[c].pc = "stored"
  /\ LET resource == call[c].resource
     IN  IF StoredPathEligible(resource)
         THEN LET result == fetchFilePath(ResourceBase, resource.path)
              IN  /\ oplog' = [oplog EXCEPT ![c] = Append(@, FetchLog(c, ResourceBase, resource.path))]
                  /\ IF result # Null
                     THEN Return(c, result)
                     ELSE call' = [call EXCEPT ![c].pc = "current"]
         ELSE /\ call' = [call EXCEPT ![c].pc = "current"]
              /\ UNCHANGED oplog
  /\ UNCHANGED << catalog, disk, served, imageVars, fnVars >>

\* step 2: the path of the current naming scheme; a result is followed by a
\* migration when the record does not hold this path
TryCurrent(c) ==
  /\ call[c].pc = "current"
  /\ LET resource == call[c].resource
         newFilePath == NewFilePathOf(call[c].id, resource)
         result == fetchFilePath(ResourceBase, newFilePath)
     IN  /\ oplog' = [oplog EXCEPT ![c] = Append(@, FetchLog(c, ResourceBase, newFilePath))]
         /\ IF result # Null
            THEN IF NeedsMigration(resource, newFilePath)
                 THEN call' = [call EXCEPT ![c].pc = "rename", ![c].found = result,
                                           ![c].src = newFilePath]
                 ELSE Return(c, result)
            ELSE call' = [call EXCEPT ![c].pc = "legacy"]
  /\ UNCHANGED << catalog, disk, served, imageVars, fnVars >>

\* step 3: the legacy path; a result is followed by the migration to the current
\* scheme, no result is the answer Not Found
TryLegacy(c) ==
  /\ call[c].pc = "legacy"
  /\ LET legacyFilePath == LegacyFilePathOf(call[c].id)
         result == fetchFilePath(ResourceBase, legacyFilePath)
     IN  /\ oplog' = [oplog EXCEPT ![c] = Append(@, FetchLog(c, ResourceBase, legacyFilePath))]
         /\ IF result # Null
            THEN call' = [call EXCEPT ![c].pc = "rename", ![c].found = result,
                                      ![c].src = legacyFilePath]
            ELSE Return(c, NotFoundResult(call[c].id))
  /\ UNCHANGED << catalog, disk, served, imageVars, fnVars >>

\* migrateResourceFile(src, newFilePath, resource), first part: the rename when the
\* two paths differ. rename fails when the source is gone or the file system refuses
\* (ok = FALSE); the exception ends fetchResourceFile in its catch block.
Rename(c, ok) ==
  /\ call[c].pc = "rename"
  /\ LET resource == call[c].resource
         legacyFilePath == call[c].src
         newFilePath == NewFilePathOf(call[c].id, resource)
         renamed == ok /\ FileExists(legacyFilePath)
         next == IF resource = NoRecord
                 THEN [call EXCEPT ![c].pc = "done", ![c].result = call[c].found]
                 ELSE [call EXCEPT ![c].pc = "update"]
     IN  IF legacyFilePath # newFilePath
         THEN /\ oplog' = [oplog EXCEPT ![c] =
                              Append(@, Log(c, "rename", legacyFilePath, newFilePath, renamed))]
              /\ disk' = IF renamed
                         THEN (disk \ {Normalize(legacyFilePath, <<>>)})
                                \cup {Normalize(newFilePath, <<>>)}
                         ELSE disk
              /\ IF renamed THEN call' = next ELSE Return(c, NotFoundResult(call[c].id))
         ELSE /\ ok
              /\ call' = next
              /\ UNCHANGED << oplog, disk >>
  /\ UNCHANGED << catalog, served, imageVars, fnVars >>

\* UpdateResource with a slip: the record is not written
UpdateResource_NoWrite(c, ok) ==
  /\ call[c].pc = "update"
  /\ LET resource == call[c].resource
         newFilePath == NewFilePathOf(call[c].id, resource)
     IN  /\ oplog' = [oplog EXCEPT ![c] =
                         Append(@, Log(c, "update", newFilePath, newFilePath, ok))]
         /\ UNCHANGED catalog
         /\ IF ok THEN Return(c, call[c].found) ELSE Return(c, NotFoundResult(call[c].id))
  /\ UNCHANGED << disk, served, imageVars, fnVars >>

\* migrateResourceFile, second part: sffs.updateResource stores the new path in the
\* record that was read; its failure (ok = FALSE) too ends in the catch block
UpdateResource(c, ok) ==
  /\ call[c].pc = "update"
  /\ LET resource == call[c].resource
         newFilePath == NewFilePathOf(call[c].id, resource)
     IN  /\ oplog' = [oplog EXCEPT ![c] =
                         Append(@, Log(c, "update", newFilePath, newFilePath, ok))]
         /\ catalog' = IF ok
                       THEN [catalog EXCEPT ![resource.id] =
                               [resource EXCEPT !.path = newFilePath]]
                       ELSE catalog
         /\ IF ok THEN Return(c, call[c].found) ELSE Return(c, NotFoundResult(call[c].id))
  /\ UNCHANGED << disk, served, imageVars, fnVars >>

\* serveFile(req, targetPath) of a production build: Forbidden for a target outside
\* the renderer directory, the file's content otherwise, and the catch block's 500
\* when the fetch throws; with the history entry of its safety check or fetch, as
\* call 0
serveFile(targetPath) ==
  LET basePath == AppBase
      target == Join(basePath, targetPath)
  IN  [ response |->
          IF ~isPathSafe(basePath, target) THEN Forbidden
          ELSE IF FileExists(target)
          THEN NewResponse(200, File(target), <<"new">>)
          ELSE NewResponse(500, Text(<<"Internal Server Error">>), <<"new">>),
        log |-> FetchLog(0, basePath, target) ]

\* a serveFile call for targetPath; its answer is kept with its history entry
ServeFile(targetPath) ==
  /\ served[targetPath] = NoResponse
  /\ served' = [served EXCEPT ![targetPath] = serveFile(targetPath)]
  /\ UNCHANGED << catalog, disk, call, oplog, imageVars, fnVars >>

\* the record of resource 123 holds one of: the legacy path, the current-scheme
\* path, a .json path, a path that leaves the resource directory
StoredPaths ==
  { LegacyFilePathOf(<<"123">>),
    Join(ResourceBase, << <<"img-", "123", ".", "png">> >>),
    Join(ResourceBase, << <<"123", ".", "json">> >>),
    ResourceBase \o << <<"..">>, <<"..">>, <<"secret", ".", "png">> >> }

\* the files that may exist when the first call is made
ResourceFiles ==
  { LegacyFilePathOf(<<"123">>),
    Join(ResourceBase, << <<"img-", "123", ".", "png">> >>),
    LegacyFilePathOf(<<"456">>) }

\* the files of the application and of the system
AppFiles ==
  { Join(AppBase, << <<"Core">>, <<"core", ".", "html">> >>),
    << <<"etc">>, <<"passwd">> >>,
    << <<"userData">>, <<"secret", ".", "png">> >> }

\* resource 123 has a record, resource 456 has none
LocInit ==
  /\ ImageIdle
  /\ \E stored \in StoredPaths :
       catalog = [id \in ResourceIds |->
                    IF id = <<"123">>
                    THEN [id |-> id, path |-> stored, type |-> "image/png"]
                    ELSE NoRecord]
  /\ \E files \in SUBSET ResourceFiles : disk = files \cup AppFiles
  /\ call = [c \in Calls |-> NoCall]
  /\ oplog = [c \in Calls |-> <<>>]
  /\ served = [t \in TargetPaths |-> NoResponse]
  /\ FnIdle

LocNext ==
  \/ \E c \in Calls, resourceId \in ResourceIds : LocStart(c, resourceId)
  \/ \E c \in Calls : TryStored(c)
  \/ \E c \in Calls : TryCurrent(c)
  \/ \E c \in Calls : TryLegacy(c)
  \/ \E c \in Calls, ok \in BOOLEAN : Rename(c, ok)
  \/ \E c \in Calls, ok \in BOOLEAN : UpdateResource(c, ok)
  \/ \E targetPath \in TargetPaths : ServeFile(targetPath)

LocSpec == LocInit /\ [][LocNext]_vars

(***************************************************************************)
(* Routing: surfProtocolHandler, surfInternalProtocolHandler and           *)
(* handleSurfFileRequest. A request URL is the record of what `new URL`    *)
(* gives for it: its protocol, its hostname as written, the segments of    *)
(* its pathname with the trailing slash apart, and its `raw` parameter.    *)
(***************************************************************************)
ALLOWED_HOSTNAMES == {"core", "overlay", "surf"}

HOSTNAME_TO_ROOT ==
  [ core |-> << <<"Core">>, <<"core", ".", "html">> >>,
    overlay |-> << <<"Overlay">>, <<"overlay", ".", "html">> >>,
    surf |-> << <<"Resource">>, <<"resource", ".", "html">> >> ]

\* the hostnames of the requests drawn by the model, and String.toLowerCase on them
Hostnames == {"core", "overlay", "surf", "Core", "evil"}
ToLowerCase(hostname) == IF hostname = "Core" THEN "core" ELSE hostname

Protocols == {"surf:", "surf-internal:", "https:"}

\* the pathnames: /, /notebook, /notebook/, /notebook/abc, /notebook/abc/,
\* /resource/123, /resource/123/assets/app.js, /assets/app.js
Pathnames ==
  { [segs |-> <<>>, slash |-> TRUE],
    [segs |-> << <<"notebook">> >>, slash |-> FALSE],
    [segs |-> << <<"notebook">> >>, slash |-> TRUE],
    [segs |-> << <<"notebook">>, <<"abc">> >>, slash |-> FALSE],
    [segs |-> << <<"notebook">>, <<"abc">> >>, slash |-> TRUE],
    [segs |-> << <<"resource">>, <<"123">> >>, slash |-> FALSE],
    [segs |-> << <<"resource">>, <<"123">>, <<"assets">>, <<"app", ".", "js">> >>,
     slash |-> FALSE],
    [segs |-> << <<"assets">>, <<"app", ".", "js">> >>, slash |-> FALSE] }

\* the values of the raw parameter: none, ?raw, ?raw=true, ?raw=false
RawValues == {Absent, Str(<<>>), Str(<<"true">>), Str(<<"false">>)}

Urls ==
  { [protocol |-> p, hostname |-> h, pathname |-> path, raw |-> raw] :
      p \in Protocols, h \in Hostnames, path \in Pathnames, raw \in RawValues }

\* url.search and url.href, as the path segments path.join makes of them
SearchOf(url) == IF url.raw = Absent THEN <<>> ELSE << <<"?raw=">> \o url.raw.s >>
HrefOf(url) == << <<url.protocol>>, <<url.hostname>> >> \o url.pathname.segs \o SearchOf(url)

Kinds == { <<"notebook">>, <<"resource">> }

\* url.pathname.match(/^\/(notebook|resource)(?:\/([^\/]+))?\/?$/): no match, or
\* the kind and the id (<<>> when the group did not take part)
PathMatch(pathname) ==
  IF /\ Len(pathname.segs) \in {1, 2}
     /\ pathname.segs[1] \in Kinds
  THEN [matched |-> TRUE, type |-> pathname.segs[1],
        id |-> IF Len(pathname.segs) = 2 THEN pathname.segs[2] ELSE <<>>]
  ELSE [matched |-> FALSE, type |-> <<>>, id |-> <<>>]

BadRequest(text) == NewResponse(400, Text(<<text>>), <<"new">>)

\* the handler answers by itself, or with what serveFile(req, targetPath) gives
Answer(resp) == [response |-> resp, serve |-> FALSE, target |-> <<>>, log |-> <<>>]
Serve(targetPath) ==
  [response |-> serveFile(targetPath).response, serve |-> TRUE, target |-> targetPath,
   log |-> <<serveFile(targetPath).log>>]

\* the target path on the host `surf`, for a pathname other than /
TargetOnSurfHost(url) ==
  LET pathname == url.pathname
      match == PathMatch(pathname)
  IN  IF match.matched
      THEN IF match.id # <<>>
           THEN IF ~pathname.slash
                THEN HOSTNAME_TO_ROOT["surf"]
                \* url.href.replace(`surf://surf/${type}/${id}/`, ''): the pathname is
                \* /{type}/{id}/, so what is left of a surf: href is the search
                ELSE IF url.protocol = "surf:" THEN SearchOf(url) ELSE HrefOf(url)
           ELSE IF ~pathname.slash
                THEN HOSTNAME_TO_ROOT["surf"]
                \* url.pathname.substring(type.length + 1) of /{type}/ is /
                ELSE <<>>
      ELSE pathname.segs

\* handleSurfFileRequest with a slip: the hostname is not checked
handleSurfFileRequest_NoHostCheck(url) ==
  IF url.protocol # "surf-internal:" /\ url.protocol # "surf:"
  THEN Answer(BadRequest("Invalid Breakwind protocol URL"))
  ELSE IF url.pathname.segs = <<>>
  THEN IF url.hostname \in DOMAIN HOSTNAME_TO_ROOT
       THEN Serve(HOSTNAME_TO_ROOT[url.hostname])
       ELSE Answer(BadRequest("Invalid Breakwind internal protocol hostname"))
  ELSE IF url.hostname = "surf"
  THEN Serve(TargetOnSurfHost(url))
  ELSE Serve(url.pathname.segs)

\* handleSurfFileRequest(req), with url = new URL(req.url)
handleSurfFileRequest(url) ==
  IF url.protocol # "surf-internal:" /\ url.protocol # "surf:"
  THEN Answer(BadRequest("Invalid Breakwind protocol URL"))
  ELSE IF ToLowerCase(url.hostname) \notin ALLOWED_HOSTNAMES
  THEN Answer(BadRequest("Invalid Breakwind internal protocol hostname"))
  ELSE IF url.pathname.segs = <<>>
  THEN IF url.hostname \in DOMAIN HOSTNAME_TO_ROOT
       THEN Serve(HOSTNAME_TO_ROOT[url.hostname])
       ELSE Answer(BadRequest("Invalid Breakwind internal protocol hostname"))
  ELSE IF url.hostname = "surf"
  THEN Serve(TargetOnSurfHost(url))
  ELSE Serve(url.pathname.segs)

\* req.url.match(/^surf:\/\/surf\/resource\/([^\/\?]+)/): the resource id, or <<>>
ResourceIdOf(url) ==
  IF /\ url.protocol = "surf:"
     /\ url.hostname = "surf"
     /\ Len(url.pathname.segs) >= 2
     /\ url.pathname.segs[1] = <<"resource">>
  THEN url.pathname.segs[2]
  ELSE <<>>

\* WantsRaw with a slip: the value of the parameter is not looked at
WantsRaw_AnyValue(url) == url.raw # Absent

\* url.searchParams.has('raw') && url.searchParams.get('raw') !== 'false'
WantsRaw(url) == url.raw # Absent /\ url.raw # Str(<<"false">>)

\* the files of the renderer directory
RendererFiles ==
  { Join(AppBase, HOSTNAME_TO_ROOT[h]) : h \in DOMAIN HOSTNAME_TO_ROOT }
    \cup { Join(AppBase, << <<"assets">>, <<"app", ".", "js">> >>) }

\* the request has not reached a handler yet
Pending == [handler |-> "none"]

\* surfInternalProtocolHandler(req): the request is handed to handleSurfFileRequest
surfInternalProtocolHandler ==
  /\ route # NoRoute
  /\ route.out = Pending
  /\ route' = [route EXCEPT !.via = "surfInternalProtocolHandler",
                            !.out = [handler |-> "handleSurfFileRequest",
                                    resourceId |-> <<>>,
                                    answer |-> handleSurfFileRequest(route.url)]]
  /\ UNCHANGED << imageVars, locVars, derive >>

\* surfProtocolHandler(req): a request for the bytes of a resource is handed to
\* handleSurfResourceDataRequest, whose steps are those of the resource locator
\* and of the image requests; every other request to handleSurfFileRequest
surfProtocolHandler ==
  /\ route # NoRoute
  /\ route.out = Pending
  /\ LET url == route.url
         id == ResourceIdOf(url)
     IN  route' = [route EXCEPT !.via = "surfProtocolHandler", !.out =
                     IF id # <<>> /\ WantsRaw(url)
                     THEN [handler |-> "handleSurfResourceDataRequest",
                           resourceId |-> id, answer |-> Answer(NoResponse)]
                     ELSE [handler |-> "handleSurfFileRequest", resourceId |-> <<>>,
                           answer |-> handleSurfFileRequest(url)]]
  /\ UNCHANGED << imageVars, locVars, derive >>

\* a request arrives at one of the two handlers
RouteInit ==
  /\ ImageIdle
  /\ catalog = [id \in ResourceIds |-> NoRecord]
  /\ disk = AppFiles \cup RendererFiles
  /\ call = [c \in Calls |-> NoCall]
  /\ oplog = [c \in Calls |-> <<>>]
  /\ served = [t \in TargetPaths |-> NoResponse]
  /\ derive = NoDerive
  /\ \E url \in Urls : route = [url |-> url, via |-> "none", out |-> Pending]

RouteNext ==
  \/ surfInternalProtocolHandler
  \/ surfProtocolHandler

RouteSpec == RouteInit /\ [][RouteNext]_vars

(***************************************************************************)
(* The option functions: extractImageOptions, generateCachedPath and the   *)
(* job that surfProtocolHandleImages makes of their results, applied to    *)
(* the queries a client may send.                                          *)
(***************************************************************************)
\* the values of the quality parameter: none, 70, 0, 100, abc, -5, 500, the empty
\* string, 7.5
QualityValues ==
  { Absent, Str(<<"7", "0">>), Str(<<"0">>), Str(<<"1", "0", "0">>),
    Str(<<"a", "b", "c">>), Str(<<"-", "5">>), Str(<<"5", "0", "0">>), Str(<<>>),
    Str(<<"7", ".", "5">>) }

\* the values of the maxDimension parameter: none, 512, 0, -1, abc, 1
MaxDimensionValues ==
  { Absent, Str(<<"5", "1", "2">>), Str(<<"0">>), Str(<<"-", "1">>),
    Str(<<"a", "b", "c">>), Str(<<"1">>) }

\* the resource ids: 123, 456 and 123_quality-70 (the id is taken from the request
\* URL by /^surf:\/\/surf\/resource\/([^\/\?]+)/, any text without / and ?)
DeriveIds == ResourceIds \cup { <<"123", "_quality-", "70">> }

\* nothing was computed yet
NoOptions == [quality |-> Null, maxDimension |-> Null]
NoPath == <<>>
NoJob == [t |-> "none"]

\* `const options = extractImageOptions(params.requestURL)`
ExtractOptions ==
  /\ derive # NoDerive
  /\ derive.stage = "query"
  /\ derive' = [derive EXCEPT !.stage = "options",
                              !.options = extractImageOptions(derive.query)]
  /\ UNCHANGED << imageVars, locVars, route >>

\* `const cachedPath = generateCachedPath(params.resourceId, params.cacheDir, options)`
GenerateCachedPath ==
  /\ derive # NoDerive
  /\ derive.stage = "options"
  /\ derive' = [derive EXCEPT !.stage = "path",
                              !.cachedPath = generateCachedPath(derive.resourceId,
                                                                derive.cacheDir,
                                                                derive.options)]
  /\ UNCHANGED << imageVars, locVars, route >>

\* the object handed to processImageWithWorker when the cache file is missing
MakeJob ==
  /\ derive # NoDerive
  /\ derive.stage = "path"
  /\ derive' = [derive EXCEPT !.stage = "job",
                              !.job = [imgPath |-> derive.imgPath,
                                       savePath |-> derive.cachedPath,
                                       quality |-> derive.options.quality,
                                       maxDimension |-> derive.options.maxDimension]]
  /\ UNCHANGED << imageVars, locVars, route >>

\* an image request with any of the query values arrives
DeriveInit ==
  /\ ImageIdle
  /\ LocIdle
  /\ route = NoRoute
  /\ \E id \in DeriveIds, q \in QualityValues, d \in MaxDimensionValues :
       derive = [stage |-> "query", resourceId |-> id,
                 query |-> [quality |-> q, maxDimension |-> d],
                 imgPath |-> ImgPathOf(id), cacheDir |-> CacheDir(ResourceBase),
                 options |-> NoOptions, cachedPath |-> NoPath, job |-> NoJob]

DeriveNext ==
  \/ ExtractOptions
  \/ GenerateCachedPath
  \/ MakeJob

DeriveSpec == DeriveInit /\ [][DeriveNext]_vars

(***************************************************************************)
(* Resource-byte serving: handleSurfResourceDataRequest. A request reads   *)
(* the catalog, calls fetchResourceFile (the locator steps above, as call  *)
(* number r), and hands an image other than a GIF to                       *)
(* surfProtocolHandleImages (the transcoding steps above, as request r).   *)
(***************************************************************************)
\* number of resource-byte requests
MaxDataRequests == 1
DataReqs == 1..MaxDataRequests

\* the content of the files of a resource: 123 is a PNG image, 456 a GIF image
ContentOf(resourceId) == IF resourceId = <<"123">> THEN "image/png" ELSE "image/gif"

\* the content-type header net.fetch gives a file: URL: the type of the file name's
\* extension, and for a name without extension the type sniffed from the content
ContentTypeOfFile(path, resourceId) ==
  IF EndsWith(path, <<".", "png">>) THEN "image/png"
  ELSE IF EndsWith(path, <<".", "json">>) THEN "application/json"
  ELSE ContentOf(resourceId)

\* response.headers.get('content-type') of the locator's response
ContentTypeOf(resp, resourceId) ==
  IF resp.body.kind = "file" THEN ContentTypeOfFile(resp.body.path, resourceId)
  ELSE "text/plain"

\* content-type starts with image/ and not with image/gif
IsTranscodable(contentType) == contentType \in {"image/png"}

\* the catch block of surfProtocolHandleImages
ImageError == NewResponse(500, Text(<<"'Internal Server Error: ">>), <<"new">>)

\* net.fetch(`file://${path}`) inside surfProtocolHandleImages: the file with the
\* cache headers, or the catch block's answer when the fetch throws
FetchWithCacheHeaders(path, exists, resourceId) ==
  IF exists THEN WithCacheHeaders(FileResponse(path), resourceId) ELSE ImageError

\* DataStart with a slip: the record is handed on although the catalog did not
\* answer
DataStart_KeepsRecord(r, resourceId, query, catalogUp) ==
  /\ r \in DataReqs
  /\ pc[r] = "idle"
  /\ \A earlier \in 1..(r - 1) : pc[earlier] # "idle"
  /\ pc' = [pc EXCEPT ![r] = "locating"]
  /\ req' = [req EXCEPT ![r] = [query |-> query, resourceId |-> resourceId,
                                imgPath |-> <<>>, cacheDir |-> <<>>,
                                options |-> NoOptions, cachedPath |-> NoPath,
                                catalogUp |-> catalogUp, contentType |-> "",
                                branch |-> "none"]]
  /\ call' = [call EXCEPT ![r] =
                [pc |-> "stored", id |-> resourceId, resource |-> catalog[resourceId],
                 found |-> Null, src |-> <<>>, result |-> Null,
                 after |-> {d \in Calls : call[d].pc = "done"}, disk0 |-> disk]]
  /\ UNCHANGED << settled, response, imageProcessorHandles, imageProcessor,
                  imageProcessorDeinitTimeout, timers, workerVars, cacheFiles, postLog,
                  lastDeinit, sinceSubmit, rewritten, catalog, disk, oplog, served,
                  fnVars >>

\* handleSurfResourceDataRequest(req, resourceId) up to its call of
\* fetchResourceFile: readResource has answered with the record, or the catalog is
\* unavailable (no instance, or readResource rejected and .catch gave null) and
\* fetchResourceFile is called without a record
DataStart(r, resourceId, query, catalogUp) ==
  /\ r \in DataReqs
  /\ pc[r] = "idle"
  /\ \A earlier \in 1..(r - 1) : pc[earlier] # "idle"
  /\ pc' = [pc EXCEPT ![r] = "locating"]
  /\ req' = [req EXCEPT ![r] = [query |-> query, resourceId |-> resourceId,
                                imgPath |-> <<>>, cacheDir |-> <<>>,
                                options |-> NoOptions, cachedPath |-> NoPath,
                                catalogUp |-> catalogUp, contentType |-> "",
                                branch |-> "none"]]
  /\ call' = [call EXCEPT ![r] =
                [pc |-> "stored", id |-> resourceId,
                 resource |-> IF catalogUp THEN catalog[resourceId] ELSE NoRecord,
                 found |-> Null, src |-> <<>>, result |-> Null,
                 after |-> {d \in Calls : call[d].pc = "done"}, disk0 |-> disk]]
  /\ UNCHANGED << settled, response, imageProcessorHandles, imageProcessor,
                  imageProcessorDeinitTimeout, timers, workerVars, cacheFiles, postLog,
                  lastDeinit, sinceSubmit, rewritten, catalog, disk, oplog, served,
                  fnVars >>

\* handleSurfResourceDataRequest after fetchResourceFile has returned. A response
\* that is not an image, or is a GIF, is returned as it is. An image goes to
\* surfProtocolHandleImages with the returned filePath as imgPath: without
\* transform parameters that file is fetched again and returned with the cache
\* headers, otherwise the cache file is looked up as in Request.
DataRequest(r) ==
  /\ r \in DataReqs
  /\ pc[r] = "locating"
  /\ call[r].pc = "done"
  /\ LET result == call[r].result
         resourceId == req[r].resourceId
         contentType == ContentTypeOf(result.response, resourceId)
         imgPath == result.filePath
         cacheDir == Join(result.base, << <<"cache">> >>)
         options == extractImageOptions(req[r].query)
         cachedPath == generateCachedPath(resourceId, cacheDir, options)
         seen == [req[r] EXCEPT !.contentType = contentType, !.imgPath = imgPath,
                                !.cacheDir = cacheDir, !.options = options]
     IN  IF ~IsTranscodable(contentType)
         THEN /\ req' = [req EXCEPT ![r] = [req[r] EXCEPT !.contentType = contentType,
                                                          !.branch = "as located"]]
              /\ response' = [response EXCEPT ![r] = result.response]
              /\ pc' = [pc EXCEPT ![r] = "done"]
         ELSE IF options.quality = Null /\ options.maxDimension = Null
         THEN /\ req' = [req EXCEPT ![r] = [seen EXCEPT !.branch = "unmodified"]]
              /\ response' = [response EXCEPT ![r] =
                                FetchWithCacheHeaders(imgPath, FileExists(imgPath),
                                                      resourceId)]
              /\ pc' = [pc EXCEPT ![r] = "done"]
         ELSE /\ req' = [req EXCEPT ![r] = [seen EXCEPT !.branch = "transcode",
                                                         !.cachedPath = cachedPath]]
              /\ IF cachedPath \in cacheFiles
                 THEN /\ response' = [response EXCEPT ![r] =
                                        FetchWithCacheHeaders(cachedPath, TRUE, resourceId)]
                      /\ pc' = [pc EXCEPT ![r] = "done"]
                 ELSE /\ pc' = [pc EXCEPT ![r] = "miss"]
                      /\ UNCHANGED response
  /\ UNCHANGED << settled, imageProcessorHandles, imageProcessor,
                  imageProcessorDeinitTimeout, timers, workerVars, cacheFiles, postLog,
                  lastDeinit, sinceSubmit, rewritten, locVars, fnVars >>

\* the record of resource 123 holds the legacy path or a .json path
DataStoredPaths ==
  { LegacyFilePathOf(<<"123">>), Join(ResourceBase, << <<"123", ".", "json">> >>) }

\* the .json file of resource 123 exists; resource 123 has a record, resource 456
\* has none; the cache directory is empty
DataInit ==
  /\ ImageIdle
  /\ \E stored \in DataStoredPaths :
       catalog = [id \in ResourceIds |->
                    IF id = <<"123">>
                    THEN [id |-> id, path |-> stored, type |-> "image/png"]
                    ELSE NoRecord]
  /\ \E files \in SUBSET ResourceFiles :
       disk = files \cup {Join(ResourceBase, << <<"123", ".", "json">> >>)} \cup AppFiles
  /\ call = [c \in Calls |-> NoCall]
  /\ oplog = [c \in Calls |-> <<>>]
  /\ served = [t \in TargetPaths |-> NoResponse]
  /\ FnIdle

DataNext ==
  \/ \E r \in DataReqs, id \in ResourceIds, query \in Queries, catalogUp \in BOOLEAN :
       DataStart(r, id, query, catalogUp)
  \/ \E c \in Calls : TryStored(c)
  \/ \E c \in Calls : TryCurrent(c)
  \/ \E c \in Calls : TryLegacy(c)
  \/ \E c \in Calls, ok \in BOOLEAN : Rename(c, ok)
  \/ \E c \in Calls, ok \in BOOLEAN : UpdateResource(c, ok)
  \/ \E r \in DataReqs : DataRequest(r)
  \/ \E r \in Req : Submit(r)
  \/ \E w \in WorkerIds, ok \in BOOLEAN : WorkerProcess(w, ok)
  \/ \E w \in WorkerIds : WorkerFatal(w)
  \/ \E w \in WorkerIds : DeliverMessage(w)
  \/ \E w \in WorkerIds : DeliverError(w)
  \/ Tick
  \/ \E id \in DOMAIN timers : TimerFire(id)
  \/ \E w \in WorkerIds : TerminateDone(w)

DataSpec == DataInit /\ [][DataNext]_vars

(***************************************************************************)
(* The surflet: protocol. surfletProtocolHandler takes the resource id     *)
(* from the host name, reads the record from the catalog, calls            *)
(* fetchResourceFile (the locator steps above, as call 1) and answers the  *)
(* file's text as text/html, with the Content-Security-Policy header for a *)
(* host of the v2 form.                                                    *)
(***************************************************************************)
\* the host names of the requests, in pieces: <id>.app.local, <id>.v2.app.local,
\* a host that only contains .v2.app.local, and a foreign host
SurfletHosts ==
  { id \o suffix : id \in ResourceIds,
                   suffix \in { <<".app.local">>, <<".v2", ".app.local">>,
                                <<".v2", ".app.local", ".evil.com">>,
                                <<".example.com">> } }

\* text.endsWith(suffix), on a text in pieces
StringEndsWith(text, suffix) ==
  /\ Len(text) >= Len(suffix)
  /\ SubSeq(text, Len(text) - Len(suffix) + 1, Len(text)) = suffix

\* the position of the first occurrence of pattern in text, 0 when there is none
FirstOccurrence(text, pattern) ==
  LET starts == { i \in 1..(Len(text) - Len(pattern) + 1) :
                    SubSeq(text, i, i + Len(pattern) - 1) = pattern }
  IN  IF starts = {} THEN 0 ELSE CHOOSE i \in starts : \A j \in starts : i <= j

\* text.replace(pattern, ''): the first occurrence is taken out
Replace(text, pattern) ==
  LET i == FirstOccurrence(text, pattern)
  IN  IF i = 0 THEN text
      ELSE SubSeq(text, 1, i - 1) \o SubSeq(text, i + Len(pattern), Len(text))

\* isV2Protocol = url.hostname.endsWith('.v2.app.local')
isV2Protocol(hostname) == StringEndsWith(hostname, <<".v2", ".app.local">>)

\* const id = url.hostname.replace(suffix, '')
SurfletIdOf(hostname) ==
  Replace(hostname, IF isV2Protocol(hostname) THEN <<".v2", ".app.local">>
                    ELSE <<".app.local">>)

\* response.ok
Ok(resp) == resp.status \in 200..299

\* new Response(code, { headers }): the text of the located file as text/html
SurfletDocument(resp, headers) ==
  [status |-> 200, body |-> [kind |-> "code", path |-> resp.body.path],
   headers |-> headers]

\* the request is answered
SurfletAnswer(resp) == route' = [route EXCEPT !.stage = "done", !.out = resp]

\* surfletProtocolHandler up to its call of fetchResourceFile: 400 for a host that
\* does not end with .app.local; otherwise readResource has answered with the
\* record, or gave none (no catalog, or the read was rejected), and
\* fetchResourceFile is called
SurfletStart ==
  /\ route # NoRoute
  /\ route.via = "surflet"
  /\ route.stage = "arrived"
  /\ IF ~StringEndsWith(route.hostname, <<".app.local">>)
     THEN /\ SurfletAnswer(NewResponse(400, Text(<<"Invalid Surflet protocol URL">>),
                                       <<"new">>))
          /\ UNCHANGED call
     ELSE LET id == SurfletIdOf(route.hostname)
          IN  /\ route' = [route EXCEPT !.stage = "locating"]
              /\ call' = [call EXCEPT ![1] =
                            [pc |-> "stored", id |-> id,
                             resource |-> IF route.catalogUp THEN catalog[id]
                                          ELSE NoRecord,
                             found |-> Null, src |-> <<>>, result |-> Null,
                             after |-> {}, disk0 |-> disk]]
  /\ UNCHANGED << imageVars, catalog, disk, oplog, served, derive >>

\* SurfletRespond with a slip: the policy header is attached for every host
SurfletRespond_PolicyForAll ==
  /\ route # NoRoute
  /\ route.via = "surflet"
  /\ route.stage = "locating"
  /\ call[1].pc = "done"
  /\ LET resp == call[1].result.response
         headers == [ContentType |-> "text/html", ContentSecurityPolicy |-> "cspPolicy"]
     IN  IF ~Ok(resp)
         THEN SurfletAnswer(NewResponse(404, Text(<<"Not Found">>), <<"new">>))
         ELSE SurfletAnswer(SurfletDocument(resp, headers))
  /\ UNCHANGED << imageVars, locVars, derive >>

\* surfletProtocolHandler after fetchResourceFile has returned: 404 for a response
\* that is not ok; otherwise the file's text with Content-Type text/html, and with
\* the Content-Security-Policy header when the host is of the v2 form
SurfletRespond ==
  /\ route # NoRoute
  /\ route.via = "surflet"
  /\ route.stage = "locating"
  /\ call[1].pc = "done"
  /\ LET resp == call[1].result.response
         headers == IF isV2Protocol(route.hostname)
                    THEN [ContentType |-> "text/html",
                          ContentSecurityPolicy |-> "cspPolicy"]
                    ELSE [ContentType |-> "text/html"]
     IN  IF ~Ok(resp)
         THEN SurfletAnswer(NewResponse(404, Text(<<"Not Found">>), <<"new">>))
         ELSE SurfletAnswer(SurfletDocument(resp, headers))
  /\ UNCHANGED << imageVars, locVars, derive >>

\* a surflet request arrives; the record of resource 123 and the files are those
\* of the locator
SurfletInit ==
  /\ ImageIdle
  /\ \E stored \in StoredPaths :
       catalog = [id \in ResourceIds |->
                    IF id = <<"123">>
                    THEN [id |-> id, path |-> stored, type |-> "image/png"]
                    ELSE NoRecord]
  /\ \E files \in SUBSET ResourceFiles : disk = files \cup AppFiles
  /\ call = [c \in Calls |-> NoCall]
  /\ oplog = [c \in Calls |-> <<>>]
  /\ served = [t \in TargetPaths |-> NoResponse]
  /\ derive = NoDerive
  /\ \E hostname \in SurfletHosts, catalogUp \in BOOLEAN :
       route = [via |-> "surflet", hostname |-> hostname, catalogUp |-> catalogUp,
                stage |-> "arrived", out |-> Pending]

SurfletNext ==
  \/ SurfletStart
  \/ \E c \in Calls : TryStored(c)
  \/ \E c \in Calls : TryCurrent(c)
  \/ \E c \in Calls : TryLegacy(c)
  \/ \E c \in Calls, ok \in BOOLEAN : Rename(c, ok)
  \/ \E c \in Calls, ok \in BOOLEAN : UpdateResource(c, ok)
  \/ SurfletRespond

SurfletSpec == SurfletInit /\ [][SurfletNext]_vars
(***************************************************************************)
(* Vocabulary of the properties.                                           *)
(***************************************************************************)
Entries == Range(imageProcessorHandles)
\* the requests registered as waiters in the in-flight table
Waiting == UNION {Range(e.value) : e \in Entries}
\* the jobs posted on behalf of the waiters of entry e
PostsOf(e) == {p \in postLog : p.req \in Range(e.value)}
\* the cache key of a request: resource id and transform parameters
CacheKeyOf(r) == <<req[r].resourceId, OptionsOf(r).quality, OptionsOf(r).maxDimension>>
HasTransform(r) == OptionsOf(r).quality # Null \/ OptionsOf(r).maxDimension # Null
FatalBody == Text(<<"Image Processing Error: Fatal error!">>)
\* this step is the delivery of the result message m of worker w to the listener
MessageStep(w, m) ==
  /\ outbox[w] # <<>>
  /\ m = Head(outbox[w])
  /\ outbox'[w] = Tail(outbox[w])
  /\ "message" \in listeners[w]
\* this step is request r reaching processImageWithWorker
SubmitStep(r) == pc[r] = "miss" /\ pc'[r] = "waiting"

(***************************************************************************)
(* C1. Coalescing: for the requests of one cache key that are waiting      *)
(* together, exactly one job was posted for that cache key, and a success  *)
(* message resolves each of them with a success response of its own.       *)
(***************************************************************************)
C1_OneJobPerCacheKey ==
  \A e \in Entries : \A r \in Range(e.value) :
    Cardinality({p \in PostsOf(e) : CacheKeyOf(p.req) = CacheKeyOf(r)}) = 1

C1_SuccessFanOut ==
  \A w \in WorkerIds : \A m \in Range(outbox[w]) :
    (MessageStep(w, m) /\ m.success /\ MapHas(imageProcessorHandles, m.messageID)) =>
      LET hs == Range(MapGet(imageProcessorHandles, m.messageID))
      IN  /\ \A r \in hs : settled'[r] # NoResponse /\ settled'[r].status = 200
          /\ \A r1, r2 \in hs : r1 # r2 => settled'[r1].obj # settled'[r2].obj

C1_Coalescing == [][C1_OneJobPerCacheKey' /\ C1_SuccessFanOut]_vars

(***************************************************************************)
(* C2. In every state the in-flight table has at most one entry per key,   *)
(* every entry has at least one waiter, and exactly one job was posted for *)
(* every entry: the one of the request that created it.                    *)
(***************************************************************************)
C2_TableInvariant ==
  /\ \A i, j \in 1..Len(imageProcessorHandles) :
       imageProcessorHandles[i].key = imageProcessorHandles[j].key => i = j
  /\ \A e \in Entries :
       /\ Len(e.value) >= 1
       /\ PostsOf(e) = {p \in postLog : p.req = e.value[1]}
       /\ Cardinality(PostsOf(e)) = 1

\* two requests wait in one entry
C2_Witness ==
  \E e \in Entries : Len(e.value) >= 2

(***************************************************************************)
(* C3. A request is a waiter of an in-flight job only if that job was      *)
(* submitted for its own resource id, quality and maxDimension: requests   *)
(* of one resource with different transform parameters wait in distinct    *)
(* entries, each with a job of its own.                                    *)
(***************************************************************************)
C3_KeyIsCacheKey ==
  \A e \in Entries : \A r \in Range(e.value) : CacheKeyOf(r) = CacheKeyOf(e.value[1])

(***************************************************************************)
(* C4. Cache short-circuit: a request with transform parameters whose      *)
(* cache file exists when it is looked up returns that file; no in-flight  *)
(* entry is made, no worker is started and nothing is posted.              *)
(***************************************************************************)
C4_CacheShortCircuit ==
  [][\A r \in Req :
       (pc[r] = "idle" /\ pc'[r] # "idle" /\ HasTransform(r)' /\ CachedPathOf(r)' \in cacheFiles)
       => /\ pc'[r] = "done"
          /\ response'[r].status = 200
          /\ response'[r].body = File(CachedPathOf(r)')
          /\ UNCHANGED << imageProcessorHandles, imageProcessor, spawned, workerState,
                          inbox, postLog, timers >>]_vars

\* a request was answered from the cache file of its key
C4_Witness ==
  \E r \in Req :
    /\ pc[r] = "done"
    /\ HasTransform(r)
    /\ response[r].body = File(CachedPathOf(r))
    /\ r \notin {p.req : p \in postLog}

(***************************************************************************)
(* C5. At-least-once delivery: every request registered as a waiter in the *)
(* in-flight table is eventually resolved, with a success or an error      *)
(* response (under Fairness: a live worker answers every job it holds).    *)
(***************************************************************************)
C5_EveryWaiterResolved ==
  \A r \in Req : (r \in Waiting) ~> (settled[r] # NoResponse)

(***************************************************************************)
(* C6. Fatal broadcast: when the worker's 'error' event is delivered,      *)
(* every waiter of every key is resolved with a 500 response and the       *)
(* in-flight table is empty afterwards.                                    *)
(***************************************************************************)
\* this step is the delivery of the 'error' event of worker w
ErrorStep(w) == errorEvent[w] /\ ~errorEvent'[w]

C6_FatalBroadcast ==
  [][\A w \in WorkerIds :
       ErrorStep(w) =>
         /\ \A r \in Waiting : settled'[r] # NoResponse /\ settled'[r].status = 500
         /\ imageProcessorHandles' = <<>>]_vars

\* the waiters of two keys were resolved by the fatal error
C6_Witness ==
  \E r1, r2 \in Req :
    /\ req[r1] # NoRequest /\ req[r2] # NoRequest
    /\ req[r1].imgPath # req[r2].imgPath
    /\ settled[r1] # NoResponse /\ settled[r1].body = FatalBody
    /\ settled[r2] # NoResponse /\ settled[r2].body = FatalBody
    /\ imageProcessorHandles = <<>>

(***************************************************************************)
(* C7. After a fatal worker error the worker is treated as dead: a job is  *)
(* never posted to the worker that raised the fatal error, the request     *)
(* that misses the cache next starts a fresh worker.                       *)
(***************************************************************************)
\* worker w raised a fatal error and the main process has handled the event
HandledFatal(w) == workerState[w] = "dead" /\ ~errorEvent[w]

C7_FreshWorkerAfterFatal ==
  [][\A r \in Req :
       (SubmitStep(r) /\ postLog' # postLog) => ~HandledFatal(imageProcessor')]_vars

(***************************************************************************)
(* C8. Per-job failure isolation: when the worker reports success: false   *)
(* for key K, every waiter of K is resolved with a 500 response carrying   *)
(* the reason and K's entry is removed; the entries and waiters of every   *)
(* other key stay as they are, unresolved.                                 *)
(***************************************************************************)
C8_FailureIsolation ==
  [][\A w \in WorkerIds : \A m \in Range(outbox[w]) :
       (MessageStep(w, m) /\ ~m.success /\ MapHas(imageProcessorHandles, m.messageID)) =>
         LET hs == Range(MapGet(imageProcessorHandles, m.messageID))
         IN  /\ \A r \in hs :
                  /\ settled'[r] # NoResponse
                  /\ settled'[r].status = 500
                  /\ settled'[r].body = Text(<<"Image Processing Error: ", m.error>>)
             /\ ~MapHas(imageProcessorHandles', m.messageID)
             /\ \A e \in Entries : e.key # m.messageID => e \in Range(imageProcessorHandles')
             /\ Len(imageProcessorHandles') = Len(imageProcessorHandles) - 1
             /\ \A r \in Waiting \ hs : settled'[r] = NoResponse /\ pc'[r] = "waiting"]_vars

\* one key's waiter got the failure while another key's waiter is still waiting
C8_Witness ==
  \E r1, r2 \in Req :
    /\ settled[r1] # NoResponse
    /\ settled[r1].body = Text(<<"Image Processing Error: ", "failed">>)
    /\ r2 \in Waiting
    /\ req[r2].imgPath # req[r1].imgPath
    /\ settled[r2] = NoResponse

(***************************************************************************)
(* C9. Idle teardown deferral: the worker is terminated, and its listeners *)
(* are removed, only by a timer expiry that finds the in-flight table      *)
(* empty; an expiry that finds a job outstanding leaves the worker as it   *)
(* is and arms the timer again with the same delay.                        *)
(***************************************************************************)
\* this step begins the teardown of worker w
TeardownStep(w) ==
  \/ workerState[w] # "terminating" /\ workerState'[w] = "terminating"
  \/ listeners[w] # {} /\ listeners'[w] = {}
  \/ terminatePending'[w] > terminatePending[w]
C9_TeardownDeferred ==
  [][/\ \A w \in WorkerIds :
          TeardownStep(w) =>
            /\ imageProcessorHandles = <<>>
            /\ \E id \in DOMAIN timers : timers[id] = 0
            /\ lastDeinit' = "terminated"
     /\ (lastDeinit' # lastDeinit /\ imageProcessor # NoWorker
           /\ imageProcessorHandles # <<>>) =>
            /\ lastDeinit' = "deferred"
            /\ UNCHANGED << workerState, listeners, terminatePending, imageProcessor >>
            /\ imageProcessorDeinitTimeout' \in DOMAIN timers'
            /\ timers'[imageProcessorDeinitTimeout'] = DelayTicks]_vars

\* an expiry was deferred, and the worker still works for a waiter
C9_Witness ==
  /\ lastDeinit = "deferred"
  /\ imageProcessor # NoWorker
  /\ workerState[imageProcessor] = "live"
  /\ imageProcessorHandles # <<>>

(***************************************************************************)
(* C10. Idle teardown liveness: a worker that was started is eventually    *)
(* terminated and imageProcessor returns to null once the requests have    *)
(* stopped, also when a job was lost or the worker raised a fatal error.   *)
(***************************************************************************)
C10_WorkerEventuallyReleased ==
  (imageProcessor # NoWorker) ~> (imageProcessor = NoWorker)

(***************************************************************************)
(* C11. Single worker: in every state at most one worker has been spawned  *)
(* and has not finished terminating, whatever the interleaving of          *)
(* requests, timer expiries and terminate() completions.                   *)
(***************************************************************************)
C11_SingleWorker ==
  Cardinality({w \in WorkerIds : workerState[w] \in {"live", "dead", "terminating"}}) <= 1

\* a second worker runs after the first one was terminated
C11_Witness ==
  \E w1, w2 \in WorkerIds :
    workerState[w1] = "exited" /\ workerState[w2] = "live" /\ imageProcessor = w2

(***************************************************************************)
(* C12. Every call of processImageWithWorker leaves exactly one teardown   *)
(* timer pending, armed with the full delay, and the teardown callback     *)
(* never runs earlier than one full delay after the last such call.        *)
(***************************************************************************)
\* this step is a run of the teardown timer's callback
TimerStep ==
  /\ \A r \in Req : ~SubmitStep(r)
  /\ \E id \in DOMAIN timers :
       timers[id] = 0 /\ (id \notin DOMAIN timers' \/ timers'[id] # 0)

C12_TeardownNotEarly ==
  [][/\ \A r \in Req :
          SubmitStep(r) =>
            /\ DOMAIN timers' = {imageProcessorDeinitTimeout'}
            /\ timers'[imageProcessorDeinitTimeout'] = DelayTicks
     /\ TimerStep => sinceSubmit = DelayTicks]_vars

\* a call that only appended a waiter has re-armed the timer after an expiry was
\* deferred
C12_Witness ==
  /\ lastDeinit = "deferred"
  /\ sinceSubmit = 0
  /\ \E e \in Entries : Len(e.value) >= 2
  /\ \E id \in DOMAIN timers : timers[id] = DelayTicks

(***************************************************************************)
(* C13. A request that was resolved with a success response has its cache  *)
(* file on disk: the file at the path derived from its own resource id     *)
(* and transform parameters exists.                                        *)
(***************************************************************************)
C13_SuccessImpliesCacheFile ==
  \A r \in Req :
    (settled[r] # NoResponse /\ settled[r].status = 200) => CachedPathOf(r) \in cacheFiles

(***************************************************************************)
(* C14. A cache file is written once: no job that completes successfully   *)
(* is given the save path of a cache file that exists already.             *)
(***************************************************************************)
C14_CacheFileWrittenOnce == rewritten = {}

(***************************************************************************)
(* Vocabulary of the locator's properties.                                 *)
(***************************************************************************)
Done(c) == call[c].pc = "done"
Started(c) == call[c].pc # "idle"
\* the entries of a call's history of the given kinds
OpsOf(c, kinds) == SelectSeq(oplog[c], LAMBDA e : e.op \in kinds)
\* the candidates a call has passed to fetchFilePath, in order
TriedBy(c) == OpsOf(c, {"fetch", "reject"})
\* the stored path ends in the extension of the record's kind or in .json
StoredPathQualifies(resource) ==
  /\ resource # NoRecord
  /\ \/ EndsWith(resource.path, <<".", getResourceFileExtension(resource.type)>>)
     \/ EndsWith(resource.path, <<".", "json">>)
\* the current-scheme path base/<normalizedFileName>.<extension> of a record, and
\* base/<resourceId> where there is no record
CurrentPath(c) ==
  IF call[c].resource = NoRecord
  THEN ResourceBase \o <<call[c].id>>
  ELSE ResourceBase \o << getResourceFileName(call[c].resource)
                            \o <<".", getResourceFileExtension(call[c].resource.type)>> >>
LegacyPath(c) == ResourceBase \o <<call[c].id>>
\* the candidates of a call, in the order of the algorithm
Candidates(c) ==
  (IF StoredPathQualifies(call[c].resource) THEN <<call[c].resource.path>> ELSE <<>>)
    \o <<CurrentPath(c), LegacyPath(c)>>
PathsOf(entries) == [i \in 1..Len(entries) |-> entries[i].path]

(***************************************************************************)
(* C15. fetchResourceFile tries its candidates in the fixed order stored   *)
(* path (only when it ends in the kind's extension or in .json), current   *)
(* path, legacy path. As stated: it stops at the first candidate that can  *)
(* be read, and answers 404 when none can be read.                         *)
(***************************************************************************)
C15_OrderAndStopAtFirstRead ==
  \A c \in Calls :
    Started(c) =>
      LET tried == TriedBy(c)
          n == Len(tried)
      IN  /\ IsPrefix(PathsOf(tried), Candidates(c))
          /\ \A i \in 1..(n - 1) : ~tried[i].ok
          /\ Done(c) =>
               /\ n >= 1
               /\ ~tried[n].ok =>
                    /\ PathsOf(tried) = Candidates(c)
                    /\ call[c].result.response.status = 404

(***************************************************************************)
(* C15, amended. The candidates are tried in that order, and the call      *)
(* stops at the first candidate that can be read or that the path-safety   *)
(* check rejects; when no candidate can be read and none was rejected the  *)
(* answer is 404.                                                          *)
(***************************************************************************)
C15_OrderAndStopAtFirstResult ==
  \A c \in Calls :
    Started(c) =>
      LET tried == TriedBy(c)
          n == Len(tried)
      IN  /\ IsPrefix(PathsOf(tried), Candidates(c))
          /\ \A i \in 1..(n - 1) : tried[i].op = "fetch" /\ ~tried[i].ok
          /\ Done(c) =>
               /\ n >= 1
               /\ (tried[n].op = "fetch" /\ ~tried[n].ok) =>
                    /\ PathsOf(tried) = Candidates(c)
                    /\ call[c].result.response.status = 404

\* a call found the file at its third candidate after two candidates could not be
\* read
C15_Witness ==
  \E c \in Calls :
    /\ Done(c)
    /\ Len(TriedBy(c)) = 3
    /\ TriedBy(c)[3].ok
    /\ PathsOf(TriedBy(c)) = Candidates(c)

(***************************************************************************)
(* C16. Idempotent migration, as stated: when the first call is made for a *)
(* resource with a record whose file exists only at the legacy path and a  *)
(* second call for it follows the first, the two calls make exactly one    *)
(* rename in total, from the legacy to the current path, and the second    *)
(* call finds the file at the current path, with no rename and no catalog  *)
(* update of its own.                                                      *)
(***************************************************************************)
\* c1 and c2 are the only calls made, c2 was made after c1 returned, both have
\* returned, and when c1 was made the resource had a record and its file was at
\* the legacy path only
TwoSuccessiveCalls(c1, c2) ==
  /\ c1 # c2
  /\ Done(c1) /\ Done(c2)
  /\ call[c1].after = {} /\ call[c2].after = {c1}
  /\ \A d \in Calls \ {c1, c2} : ~Started(d)
  /\ call[c1].id = call[c2].id
  /\ call[c1].resource # NoRecord
  /\ LegacyPath(c1) \in call[c1].disk0
  /\ CurrentPath(c1) \notin call[c1].disk0
  /\ Normalize(call[c1].resource.path, <<>>) \in call[c1].disk0
       => call[c1].resource.path = LegacyPath(c1)

\* one rename in total, by the first call, and the second call finds the file at the
\* current path without a migration
OneMigration(c1, c2) ==
  /\ Len(OpsOf(c1, {"rename"})) = 1
  /\ OpsOf(c1, {"rename"})[1].path = LegacyPath(c1)
  /\ OpsOf(c1, {"rename"})[1].to = CurrentPath(c1)
  /\ OpsOf(c1, {"rename"})[1].ok
  /\ OpsOf(c2, {"rename", "update"}) = <<>>
  /\ call[c2].result.response.status = 200
  /\ call[c2].result.filePath = CurrentPath(c1)

FirstCallMigrates(c1) ==
  /\ OpsOf(c1, {"reject"}) = <<>>
  /\ \A i \in 1..Len(oplog[c1]) :
       oplog[c1][i].op \in {"rename", "update"} => oplog[c1][i].ok

C17_MigrationFailureKeepsRead ==
  \A c \in Calls :
    (/\ Done(c)
     /\ \E i \in 1..Len(oplog[c]) : oplog[c][i].op = "fetch" /\ oplog[c][i].ok
     /\ \E i \in 1..Len(oplog[c]) :
          oplog[c][i].op \in {"rename", "update"} /\ ~oplog[c][i].ok)
    => /\ call[c].result = call[c].found
       /\ call[c].result.response.status = 200

(***************************************************************************)
(* C18. A call with a record that finds the file at the current path in    *)
(* step 2 makes no rename; it asks the catalog exactly once to store the   *)
(* current path when the record's stored path differs from it, and makes   *)
(* no catalog update when the stored path is the current path. In every    *)
(* call a rename comes before a catalog update.                            *)
(***************************************************************************)
\* call c has returned after its step 2 read the file at the current path
FoundAtStep2(c) ==
  /\ Done(c)
  /\ call[c].resource # NoRecord
  /\ Len(TriedBy(c)) = (IF StoredPathQualifies(call[c].resource) THEN 2 ELSE 1)
  /\ TriedBy(c)[Len(TriedBy(c))].op = "fetch"
  /\ TriedBy(c)[Len(TriedBy(c))].ok

C18_MigrationAfterStep2 ==
  /\ \A c \in Calls :
       FoundAtStep2(c) =>
         /\ OpsOf(c, {"rename"}) = <<>>
         /\ IF call[c].resource.path # CurrentPath(c)
            THEN /\ Len(OpsOf(c, {"update"})) = 1
                 /\ OpsOf(c, {"update"})[1].path = CurrentPath(c)
            ELSE OpsOf(c, {"update"}) = <<>>
  /\ \A c \in Calls : \A i, j \in 1..Len(oplog[c]) :
       (oplog[c][i].op = "rename" /\ oplog[c][j].op = "update") => i < j

\* a call found the file in step 2 under a record that held another path, and the
\* catalog now holds the current path
C18_Witness ==
  \E c \in Calls :
    /\ FoundAtStep2(c)
    /\ call[c].resource.path # CurrentPath(c)
    /\ Len(OpsOf(c, {"update"})) = 1
    /\ catalog[call[c].id].path = CurrentPath(c)

(***************************************************************************)
(* C19. Path safety: a candidate path that the path-safety check rejects   *)
(* is answered 403 Forbidden, not 404, and is not read; in serveFile and   *)
(* in fetchFilePath / fetchResourceFile alike.                             *)
(***************************************************************************)
C19_RejectedIsForbidden ==
  /\ \A c \in Calls : \A i \in 1..Len(oplog[c]) :
       oplog[c][i].op = "reject" =>
         /\ Done(c)
         /\ call[c].result.response.status = 403
         /\ \A j \in 1..Len(oplog[c]) :
              oplog[c][j].op = "fetch" =>
                Normalize(oplog[c][j].path, <<>>) # Normalize(oplog[c][i].path, <<>>)
  /\ \A t \in TargetPaths :
       (served[t] # NoResponse /\ ~isPathSafe(AppBase, AppBase \o t)) =>
         /\ served[t].response.status = 403
         /\ served[t].log.op = "reject"

\* serveFile and fetchResourceFile have each rejected a path that names an existing
\* file outside their base directory
C19_Witness ==
  /\ \E t \in TargetPaths :
       /\ served[t] # NoResponse
       /\ served[t].log.op = "reject"
       /\ Normalize(served[t].log.path, <<>>) \in disk
  /\ \E c \in Calls :
       /\ Done(c)
       /\ OpsOf(c, {"reject"}) # <<>>
       /\ Normalize(OpsOf(c, {"reject"})[1].path, <<>>) \in disk

(***************************************************************************)
(* C20. Every path the catalog is asked to store resolves under the        *)
(* resource base directory, and no rename and no catalog update is made    *)
(* for a candidate path that the path-safety check rejected.               *)
(***************************************************************************)
C20_StoredPathUnderBase ==
  \A c \in Calls : \A i \in 1..Len(oplog[c]) :
    /\ oplog[c][i].op = "update" =>
         IsPrefix(ResourceBase, Normalize(oplog[c][i].path, <<>>))
    /\ oplog[c][i].op = "reject" =>
         \A j \in 1..Len(oplog[c]) :
           oplog[c][j].op \in {"rename", "update"} =>
             oplog[c][i].path \notin {oplog[c][j].path, oplog[c][j].to}

\* the catalog has stored the path a call asked it to store
C20_Witness ==
  \E c \in Calls :
    /\ Done(c)
    /\ OpsOf(c, {"update"}) # <<>>
    /\ OpsOf(c, {"update"})[1].ok
    /\ catalog[call[c].id].path = OpsOf(c, {"update"})[1].path

(***************************************************************************)
(* Routing properties, stated on the request that was routed.              *)
(***************************************************************************)
\* the request was answered by handleSurfFileRequest
FileRouted ==
  /\ route # NoRoute
  /\ route.out # Pending
  /\ route.out.handler = "handleSurfFileRequest"

\* the request passes the scheme and the host allow-list, hosts read without case
PassesAllowLists(url) ==
  /\ url.protocol \in {"surf:", "surf-internal:"}
  /\ ToLowerCase(url.hostname) \in {"core", "overlay", "surf"}

\* C21: handleSurfFileRequest answers every request whose scheme is not surf or
\* surf-internal, or whose host is not core, overlay or surf, with status 400, and
\* no file is read for it (serveFile is not called, nothing is checked or fetched).
C21_DisallowedIs400 ==
  (FileRouted /\ ~PassesAllowLists(route.url))
    => /\ route.out.answer.response.status = 400
       /\ ~route.out.answer.serve
       /\ route.out.answer.log = <<>>

\* a request for an existing renderer file on the host `evil` was answered 400
C21_Witness ==
  /\ FileRouted
  /\ route.url.protocol = "surf:"
  /\ route.url.hostname = "evil"
  /\ route.url.pathname.segs = << <<"assets">>, <<"app", ".", "js">> >>
  /\ route.out.answer.response.status = 400

\* the entry document of a host
EntryDocument(host) ==
  CASE host = "core" -> << <<"Core">>, <<"core", ".", "html">> >>
    [] host = "overlay" -> << <<"Overlay">>, <<"overlay", ".", "html">> >>
    [] host = "surf" -> << <<"Resource">>, <<"resource", ".", "html">> >>

\* C22: a request that passes the scheme and host allow-lists and whose path is /
\* is served the entry document of its host (core: /Core/core.html, overlay:
\* /Overlay/overlay.html, surf: /Resource/resource.html), and is not answered 400.
C22_RootServesEntryDocument ==
  (FileRouted /\ PassesAllowLists(route.url) /\ route.url.pathname.segs = <<>>)
    => /\ route.out.answer.response.status # 400
       /\ route.out.answer.serve
       /\ route.out.answer.target = EntryDocument(ToLowerCase(route.url.hostname))

\* C23: on the host surf, the path /{kind}/{id} (kind notebook or resource) is
\* served the entry document, and a path /{kind}/{id}/{subpath} is served exactly
\* {subpath}, the prefix removed, relative to the renderer root.
C23_SurfHostRewrite ==
  (FileRouted /\ PassesAllowLists(route.url) /\ route.url.hostname = "surf")
    => LET segs == route.url.pathname.segs
           answer == route.out.answer
       IN  /\ (Len(segs) = 2 /\ segs[1] \in {<<"notebook">>, <<"resource">>}
                 /\ ~route.url.pathname.slash)
                => (answer.serve /\ answer.target = EntryDocument("surf"))
           /\ (Len(segs) > 2 /\ segs[1] \in {<<"notebook">>, <<"resource">>})
                => (answer.serve /\ answer.target = SubSeq(segs, 3, Len(segs)))

\* surfProtocolHandler routed a request surf://surf/resource/{id}...
ResourceRouted ==
  /\ route # NoRoute
  /\ route.out # Pending
  /\ route.via = "surfProtocolHandler"
  /\ route.url.protocol = "surf:"
  /\ route.url.hostname = "surf"
  /\ Len(route.url.pathname.segs) >= 2
  /\ route.url.pathname.segs[1] = <<"resource">>

\* C24 as stated: a surf://surf/resource/{id} request whose query has the raw
\* parameter, whatever its value, is routed to handleSurfResourceDataRequest, and
\* one without it to handleSurfFileRequest.
C24_RawRoutesToData ==
  ResourceRouted
    => IF route.url.raw # Absent
       THEN route.out.handler = "handleSurfResourceDataRequest"
       ELSE route.out.handler = "handleSurfFileRequest"

\* C24, amended: a surf://surf/resource/{id} request whose query has the raw
\* parameter with a value other than `false` is routed to
\* handleSurfResourceDataRequest with that id; one without the parameter, or with
\* raw=false, is routed to handleSurfFileRequest.
C24_RawUnlessFalse ==
  ResourceRouted
    => IF route.url.raw \notin {Absent, Str(<<"false">>)}
       THEN /\ route.out.handler = "handleSurfResourceDataRequest"
            /\ route.out.resourceId = route.url.pathname.segs[2]
       ELSE route.out.handler = "handleSurfFileRequest"

\* surf://surf/resource/123?raw=false was handed to handleSurfFileRequest
C24_Witness ==
  /\ ResourceRouted
  /\ route.url.pathname.segs = << <<"resource">>, <<"123">> >>
  /\ route.url.raw = Str(<<"false">>)
  /\ route.out.handler = "handleSurfFileRequest"

(***************************************************************************)
(* Properties of the option functions.                                     *)
(***************************************************************************)
\* the pieces of a file name from piece number i on
PiecesFrom(name, i) == SubSeq(name, i, Len(name))

\* the rendering of a number in a file name
Rendered(x) == IF x.t = "num" THEN ToString(x.v) ELSE "NaN"

\* C27: the cache path is <cacheDir>/<resourceId>, followed by _quality-<n> if and
\* only if a quality is present, followed by _maxDimension-<n> if and only if a
\* maximum dimension is present, the quality always first; it is a function of the
\* resource id, the cache directory and the two options alone.
C27_CachedPathShape ==
  (derive # NoDerive /\ derive.stage \in {"path", "job"})
    => LET path == derive.cachedPath
           name == path[Len(path)]
           id == derive.resourceId
           quality == derive.options.quality
           maxDimension == derive.options.maxDimension
           tail1 == PiecesFrom(name, Len(id) + 1)
           tail2 == IF quality # Null THEN PiecesFrom(tail1, 3) ELSE tail1
       IN  /\ SubSeq(path, 1, Len(path) - 1) = derive.cacheDir
           /\ SubSeq(name, 1, Len(id)) = id
           /\ quality # Null <=> (tail1 # <<>> /\ Head(tail1) = "_quality-")
           /\ maxDimension # Null <=> "_maxDimension-" \in Range(tail1)
           /\ quality # Null => SubSeq(tail1, 1, 2) = <<"_quality-", Rendered(quality)>>
           /\ maxDimension # Null => tail2 = <<"_maxDimension-", Rendered(maxDimension)>>
           /\ maxDimension = Null => tail2 = <<>>

\* the path of resource 123 with quality=70 and maxDimension=512 was generated
C27_Witness ==
  /\ derive # NoDerive
  /\ derive.stage = "path"
  /\ derive.options = [quality |-> Num(70), maxDimension |-> Num(512)]
  /\ derive.cachedPath
       = Join(CacheDir(ResourceBase),
              << <<"123", "_quality-", "70", "_maxDimension-", "512">> >>)

\* C29: every job and every cache path carries a quality that is absent or an
\* integer from 0 to 100 and a maximum dimension that is absent or a positive
\* integer, whatever the query parameters hold.
C29_OptionsInRange ==
  (derive # NoDerive /\ derive.stage \in {"options", "path", "job"})
    => LET quality == derive.options.quality
           maxDimension == derive.options.maxDimension
       IN  /\ quality # Null => (quality.t = "num" /\ quality.v \in 0..100)
           /\ maxDimension # Null => (maxDimension.t = "num" /\ maxDimension.v > 0)

(***************************************************************************)
(* Properties of resource-byte serving.                                    *)
(***************************************************************************)
\* request r has got past the locator
Located(r) == r \in DataReqs /\ pc[r] \notin {"idle", "locating"}
\* request r has returned its response
Answered(r) == r \in DataReqs /\ pc[r] = "done"
\* the query of request r has a transform parameter
WantsTransform(r) == req[r].query.quality # Absent \/ req[r].query.maxDimension # Absent
\* the jobs posted for request r
JobsOf(r) == {e \in postLog : e.req = r}

\* C25: the transcode path (cache lookup or worker job) is taken if and only if the
\* located content type is an image other than GIF and the query has quality or
\* maxDimension; in every other case the response is the located response, status
\* and bytes unchanged, and no job is posted and no worker is started for it.
C25_TranscodeIffImageWithParams ==
  \A r \in DataReqs :
    Located(r) =>
      LET transcode == req[r].branch = "transcode"
          found == call[r].result.response
      IN  /\ transcode <=> (req[r].contentType = "image/png" /\ WantsTransform(r))
          /\ ~transcode => JobsOf(r) = {}
          /\ (~transcode /\ Answered(r))
               => /\ response[r].status = found.status
                  /\ response[r].body = found.body

\* the quoted resource id
Quoted(resourceId) == <<"\"">> \o resourceId \o <<"\"">>

\* C26: every successful resource-byte response carries Cache-Control max-age, an
\* ETag that is the quoted resource id, and Last-Modified, whether its bytes were
\* transcoded, read from the cache file or returned unmodified.
C26_SuccessCarriesCacheHeaders ==
  \A r \in DataReqs :
    (Answered(r) /\ response[r].status = 200)
      => /\ "headers" \in DOMAIN response[r]
         /\ response[r].headers.CacheControl = "max-age=172800"
         /\ response[r].headers.ETag = Quoted(req[r].resourceId)
         /\ "LastModified" \in DOMAIN response[r].headers

\* request r was made while the catalog was unavailable
CatalogDown(r) == r \in DataReqs /\ pc[r] # "idle" /\ ~req[r].catalogUp

\* C28 as stated: with the catalog unavailable a resource-byte request is answered
\* Not Found and never serves bytes.
C28_UnavailableIsNotFound ==
  \A r \in DataReqs :
    (CatalogDown(r) /\ Answered(r))
      => /\ response[r].status = 404
         /\ response[r].body = Text(<<"Not Found">>)

\* C28, amended: with the catalog unavailable the locator is called without a
\* record: it tries only the legacy path <base>/<resourceId> and makes no rename
\* and no catalog update; the request is answered Not Found if and only if no file
\* could be read there (always when none existed at the start), and otherwise the
\* file that was read is served by the usual path.
C28_UnavailableFallsBackToLegacy ==
  \A r \in DataReqs :
    CatalogDown(r)
      => /\ call[r].resource = NoRecord
         /\ \A i \in 1..Len(oplog[r]) :
              /\ oplog[r][i].op = "fetch"
              /\ oplog[r][i].path = ResourceBase \o <<req[r].resourceId>>
         /\ Answered(r)
              => /\ response[r].status = 404
                   <=> ~(\E i \in 1..Len(oplog[r]) : oplog[r][i].ok)
                 /\ response[r].status = 404 => response[r].body = Text(<<"Not Found">>)
                 /\ (ResourceBase \o <<req[r].resourceId>>) \notin call[r].disk0
                      => response[r].status = 404

\* with the catalog unavailable the legacy file of resource 123 was served
C28_Witness ==
  \E r \in DataReqs :
    /\ CatalogDown(r)
    /\ Answered(r)
    /\ req[r].resourceId = <<"123">>
    /\ catalog[<<"123">>] # NoRecord
    /\ response[r].status = 200
    /\ response[r].body = File(ResourceBase \o << <<"123">> >>)

\* the scenario: a raw request for image 123 with quality=70, the catalog
\* answering with a record that holds the legacy path, no legacy file, the file at
\* the current-scheme path (the cache directory is empty at the start)
Scenario(r) ==
  /\ r \in DataReqs
  /\ pc[r] # "idle"
  /\ req[r].resourceId = <<"123">>
  /\ req[r].query = [quality |-> Str(<<"7", "0">>), maxDimension |-> Absent]
  /\ req[r].catalogUp
  /\ call[r].resource # NoRecord
  /\ call[r].resource.path = ResourceBase \o << <<"123">> >>
  /\ (ResourceBase \o << <<"123">> >>) \notin call[r].disk0
  /\ (ResourceBase \o << <<"img-", "123", ".", "png">> >>) \in call[r].disk0

\* C30: in the scenario the locator succeeds at step 2, exactly one job is posted,
\* with save path <base>/cache/123_quality-70 and the current-scheme path as its
\* source, and the response carries ETag "123".
C30_Scenario ==
  \A r \in DataReqs :
    (Scenario(r) /\ Answered(r))
      => /\ FoundAtStep2(r)
         /\ Cardinality(JobsOf(r)) = 1
         /\ req[r].cachedPath
              = ResourceBase \o << <<"cache">>, <<"123", "_quality-", "70">> >>
         /\ req[r].imgPath = ResourceBase \o << <<"img-", "123", ".", "png">> >>
         /\ "headers" \in DOMAIN response[r]
         /\ response[r].headers.ETag = Quoted(<<"123">>)

(***************************************************************************)
(* Further properties of the transcoding path.                             *)
(***************************************************************************)
\* C31: every waiter that is resolved with a success response receives bytes made
\* by a job that carried the waiter's own quality and maxDimension: no request is
\* answered with an image transcoded under another request's parameters.
C31_OwnParameters ==
  \A r \in Req :
    (settled[r] # NoResponse /\ settled[r].status = 200)
      => /\ settled[r].body.kind = "bytes"
         /\ settled[r].body.buffer.quality = OptionsOf(r).quality
         /\ settled[r].body.buffer.maxDimension = OptionsOf(r).maxDimension

\* C32: no job is posted to a worker whose teardown has begun: between the timer
\* callback that removes the listeners and calls terminate() and the completion
\* that sets imageProcessor to null, a request that reaches processImageWithWorker
\* does not post its job to the terminating worker.
C32_NoPostToTerminatingWorker ==
  [][\A p \in postLog' \ postLog : workerState[p.worker] # "terminating"]_vars

(***************************************************************************)
(* Further properties of the resource locator.                             *)
(***************************************************************************)
\* this step is the return of call c with a file that was read
ReturnsFile(c) ==
  /\ call[c].pc # "done"
  /\ call'[c].pc = "done"
  /\ call'[c].result.response.status = 200

\* C33: when fetchResourceFile returns a file it has read, the path it returns
\* names the place where the file is when the call returns, also after a rename
\* from the legacy path to the current-scheme path.
C33_ReturnedPathExists ==
  [][\A c \in Calls :
       ReturnsFile(c) => Normalize(call'[c].result.filePath, <<>>) \in disk']_vars

(***************************************************************************)
(* C34. The teardown timer and the worker.                                 *)
(***************************************************************************)
\* the teardown timers that are pending in the event loop
PendingTimers == DOMAIN timers

\* C34: in every reachable state at most one teardown timer is pending, and
\* whenever a worker exists (imageProcessor is not null) a teardown timer is
\* pending or the termination of that worker is in progress.
C34_TimerAccompaniesWorker ==
  /\ Cardinality(PendingTimers) <= 1
  /\ imageProcessor # NoWorker
       => \/ PendingTimers # {}
          \/ terminatePending[imageProcessor] > 0

\* the worker handle is still set, no timer is pending, and terminate() has been
\* called and has not settled
C34_Witness ==
  /\ imageProcessor # NoWorker
  /\ PendingTimers = {}
  /\ terminatePending[imageProcessor] > 0
  /\ workerState[imageProcessor] = "terminating"

\* C35: no response with an error status (the 500 of a failed job or of a fatal
\* worker error) is returned with the Cache-Control max-age and ETag headers;
\* these headers accompany only responses that carry the resource's bytes.
C35_NoCacheHeadersOnErrors ==
  \A r \in Req :
    (pc[r] = "done" /\ response[r].status >= 400)
      => \/ "headers" \notin DOMAIN response[r]
         \/ /\ "CacheControl" \notin DOMAIN response[r].headers
            /\ "ETag" \notin DOMAIN response[r].headers

\* C36: generateCachedPath is injective: two requests that differ in the resource
\* id, in the quality or in the maximum dimension (a number against another
\* number, or present against absent) never get the same cache file path.
C36_CachedPathInjective ==
  (derive # NoDerive /\ derive.stage \in {"path", "job"})
    => \A id \in DeriveIds, q \in QualityValues, d \in MaxDimensionValues :
         LET options == extractImageOptions([quality |-> q, maxDimension |-> d])
         IN  (id # derive.resourceId \/ options # derive.options)
               => generateCachedPath(id, derive.cacheDir, options) # derive.cachedPath

\* the surflet request was answered
SurfletDone == route # NoRoute /\ route.via = "surflet" /\ route.stage = "done"
\* the response carries the header
HasHeader(resp, name) == "headers" \in DOMAIN resp /\ name \in DOMAIN resp.headers
\* the host name, as text, ends with the suffix
HostEndsWith(suffix) ==
  /\ Len(route.hostname) >= Len(suffix)
  /\ \A i \in 1..Len(suffix) :
       route.hostname[Len(route.hostname) - Len(suffix) + i] = suffix[i]
\* some file of the resource was found by the call
SurfletLocated == \E i \in 1..Len(oplog[1]) : oplog[1][i].op = "fetch" /\ oplog[1][i].ok
\* the 400 and 404 answers: the status, and a body that was not read from disk
SurfletErrors ==
  /\ ~HostEndsWith(<<".app.local">>)
       => route.out.status = 400 /\ route.out.body.kind = "text"
  /\ (HostEndsWith(<<".app.local">>) /\ ~SurfletLocated)
       => route.out.status = 404 /\ route.out.body.kind = "text"

\* C37, as stated: every response of surfletProtocolHandler carries the
\* Content-Security-Policy header if and only if the host ends with .v2.app.local;
\* a host not ending with .app.local is answered 400 and a resource that cannot be
\* located 404, both without a body read from disk.
C37_PolicyIffV2 ==
  SurfletDone
    => /\ HasHeader(route.out, "ContentSecurityPolicy") <=> HostEndsWith(<<".v2", ".app.local">>)
       /\ SurfletErrors

\* C37, amended: a response that serves the document (status 200) carries the
\* Content-Security-Policy header if and only if the host ends with .v2.app.local,
\* and no other response carries it; a host not ending with .app.local is answered
\* 400 and a resource that cannot be located 404, both without a body read from disk.
C37_PolicyOnDocumentIffV2 ==
  SurfletDone
    => /\ route.out.status = 200
            => (HasHeader(route.out, "ContentSecurityPolicy")
                  <=> HostEndsWith(<<".v2", ".app.local">>))
       /\ route.out.status # 200 => ~HasHeader(route.out, "ContentSecurityPolicy")
       /\ SurfletErrors

\* a document was served with the header to a v2 host whose file had to be located
\* at the legacy path
C37_Witness ==
  /\ SurfletDone
  /\ HostEndsWith(<<".v2", ".app.local">>)
  /\ route.out.status = 200
  /\ HasHeader(route.out, "ContentSecurityPolicy")
  /\ Len(oplog[1]) >= 2

\* the in-flight table has no entry under the key
NoEntryFor(key) ==
  \A i \in 1..Len(imageProcessorHandles) : imageProcessorHandles[i].key # key

\* C38: the delivery of a worker result message whose key has no entry in the
\* in-flight table leaves the in-flight table, the worker handle and the teardown
\* timer as they are and resolves no waiter.
C38_StaleResultChangesNothing ==
  [][\A w \in WorkerIds :
       (outbox[w] # <<>> /\ MessageStep(w, Head(outbox[w]))
          /\ NoEntryFor(Head(outbox[w]).messageID))
         => /\ imageProcessorHandles' = imageProcessorHandles
            /\ imageProcessor' = imageProcessor
            /\ imageProcessorDeinitTimeout' = imageProcessorDeinitTimeout
            /\ timers' = timers
            /\ settled' = settled]_vars

\* a result without an entry is next to be delivered to the listener of the
\* current worker, after the requests it belongs to were answered
C38_Witness ==
  \E w \in WorkerIds :
    /\ outbox[w] # <<>>
    /\ "message" \in listeners[w]
    /\ NoEntryFor(Head(outbox[w]).messageID)
    /\ imageProcessor = w
    /\ \E r \in Req : pc[r] = "done" /\ req[r].imgPath = Head(outbox[w]).messageID

====
